---- MODULE Spec2Model ----
(***************************************************************************)
(* Session and access-control subsystem of the stock backend               *)
(* (src/backend-zerodha-api.js, the whitelist-enabled server, lines        *)
(* 108-2330): the two session namespaces kept in Redis, the whitelist and  *)
(* admin sets, the two access-control middlewares and the handlers that    *)
(* read or change them.  Every handler is one action; a Redis call that    *)
(* throws is an input of the action (the set `fail` of failing calls).     *)
(***************************************************************************)
EXTENDS Integers, Sequences, FiniteSets, TLC

\* ------------------------------------------------------------------ bounds
\* Session tokens are minted fresh (crypto.randomBytes(32)); the model
\* numbers them in the order of minting.  Token 0 stands for "no token
\* supplied".  Spec, which has every endpoint, mints up to MaxTokens tokens;
\* SpecSessions, which has the session endpoints and the clock, up to
\* MaxTokens + MoreTokens.
MaxTokens == 1
MoreTokens == 1
\* The wall clock (seconds) stops advancing at MaxTime.
MaxTime == 3600
\* Request artifacts (request_token values) the brokerage issues.
MaxArtifacts == 2
\* Requests that may wait between two of their awaits at the same time.
MaxInflight == 2

\* -------------------------------------------------------- program constants
ZERODHA_TTL == 21600
GOOGLE_TTL == 3600

\* The clock advances in steps of half an hour.
TickSteps == {1800}
\* Token lifetimes (expires_in, seconds) the identity provider may report:
\* one that ends before the next tick and the provider's usual 3599.
ExpiresIn == {900, 3599}

\* ------------------------------------------------------------- identifiers
\* A string is a sequence of one-character strings, so that toLowerCase is
\* computed character by character.  The empty sequence is the empty string,
\* which JavaScript treats like a missing value (falsy).
NoString == << >>
LowerChar(c) ==
  CASE c = "A" -> "a"
    [] c = "B" -> "b"
    [] c = "G" -> "g"
    [] OTHER -> c

toLowerCase(s) == [i \in DOMAIN s |-> LowerChar(s[i])]

\* Identifiers a client may send to the registry endpoints.
Identifiers == {NoString, <<"A">>, <<"b">>}
\* User ids the brokerage reports (upper case, as Kite ids are).
BrokerUserIds == {<<"A">>, <<"B">>}
\* Emails the identity provider reports (NoString: no email in the profile).
GoogleEmails == {NoString, <<"a">>}
\* Account ids the identity provider reports.
GoogleIds == {<<"b">>}

\* Setup keys: NoKey is an unset environment variable or a missing body field.
NoKey == "none"
SetupKeys == {NoKey, "k1", "k2"}

Tokens == 1..(MaxTokens + MoreTokens)
NoToken == 0
\* A key that holds no value (redis GET returns null).
Null == [kind |-> "null"]

VARIABLES
  ENABLE_WHITELIST,         \* process.env.ENABLE_WHITELIST === 'true'
  SUPER_ADMIN_MODE,         \* process.env.SUPER_ADMIN_MODE === 'true'
  INITIAL_ADMIN_SETUP_KEY,  \* process.env.INITIAL_ADMIN_SETUP_KEY
  KITE_CONFIGURED,          \* apiKey && apiSecret
  GOOGLE_CONFIGURED,        \* GOOGLE_CLIENT_ID && GOOGLE_CLIENT_SECRET
  user_whitelist,           \* Redis set WHITELIST_KEY
  admin_whitelist,          \* Redis set ADMIN_WHITELIST_KEY
  session,                  \* Redis keys session:<token>
  google_session,           \* Redis keys google_session:<token>
  now,                      \* wall clock, seconds
  minted,                   \* number of session tokens generated so far
  res,                      \* the last request and its response
  denied,                   \* history: tokens the whitelist middleware answered 403
  probe,                    \* history of direct registry calls (SpecRegistry)
  exchanged,                \* history of the brokerage's artifacts (SpecBroker)
  bootstrapped,             \* history: identifiers bootstrap reported success for
  late,                     \* history: tokens whose request the handler answered
                            \* after their identity had left the whitelist
  inflight                  \* requests that wait between two of their awaits

vars == <<ENABLE_WHITELIST, SUPER_ADMIN_MODE, INITIAL_ADMIN_SETUP_KEY,
          KITE_CONFIGURED, GOOGLE_CONFIGURED, user_whitelist, admin_whitelist, session, google_session, now,
          minted, res, denied, probe, exchanged, bootstrapped, late,
          inflight>>

config == <<ENABLE_WHITELIST, SUPER_ADMIN_MODE, INITIAL_ADMIN_SETUP_KEY,
            KITE_CONFIGURED, GOOGLE_CONFIGURED>>
registry == <<user_whitelist, admin_whitelist>>
sessions == <<session, google_session, minted>>
history == <<denied, probe, exchanged, bootstrapped, late>>

\* ------------------------------------------------------------ the response
\* op: the endpoint; status: the HTTP status; token: the session token the
\* response hands out (NoToken when none); user: req.user as the middleware
\* attached it or, for a token exchange, the identity and provider of the
\* session it created; for a 403 of a middleware, the user_id of the body;
\* cleared and message: session_cleared and message of a logout's body;
\* valid: the valid flag of a validation's body;
\* upstream: the calls to the providers the handler made for the request.
NoUser == [identifier |-> NoString, session_type |-> "none", is_admin |-> FALSE]

Response(op, status, token, user) ==
  [op |-> op, status |-> status, token |-> token, user |-> user,
   cleared |-> FALSE, message |-> "", upstream |-> << >>, valid |-> FALSE]

\* A response that hands out no token and names no user.
Plain(op, status) == Response(op, status, NoToken, NoUser)

\* The response r of a request whose handler made the upstream calls `calls`,
\* in that order.
Called(r, calls) == [r EXCEPT !.upstream = calls]

\* ------------------------------------------------------------ the registry
\* A variant that fails open: a membership read that throws counts as a hit.
isUserWhitelisted_FailOpen(identifier, fail) ==
  IF ~ENABLE_WHITELIST THEN TRUE
  ELSE IF identifier = NoString THEN FALSE
  ELSE IF "sIsMember_user" \in fail THEN TRUE
  ELSE toLowerCase(identifier) \in user_whitelist

\* A variant that looks at the identifier before the feature switch.
isUserWhitelisted_IdentifierFirst(identifier, fail) ==
  IF identifier = NoString THEN FALSE
  ELSE IF ~ENABLE_WHITELIST THEN TRUE
  ELSE IF "sIsMember_user" \in fail THEN FALSE
  ELSE toLowerCase(identifier) \in user_whitelist

\* isUserWhitelisted: true for everyone when the feature is off; false for a
\* missing identifier and when the membership read throws (fail closed).
isUserWhitelisted(identifier, fail) ==
  IF ~ENABLE_WHITELIST THEN TRUE
  ELSE IF identifier = NoString THEN FALSE
  ELSE IF "sIsMember_user" \in fail THEN FALSE
  ELSE toLowerCase(identifier) \in user_whitelist

\* A variant that stores the identifier as given, without lowercasing it.
addToWhitelist_AsGiven(identifier, fail) ==
  IF identifier = NoString THEN [ok |-> FALSE, set |-> user_whitelist]
  ELSE IF "sAdd_user" \in fail THEN [ok |-> FALSE, set |-> user_whitelist]
  ELSE [ok |-> TRUE, set |-> user_whitelist \cup {identifier}]

\* addToWhitelist: the returned flag and the set afterwards.
addToWhitelist(identifier, fail) ==
  IF identifier = NoString THEN [ok |-> FALSE, set |-> user_whitelist]
  ELSE IF "sAdd_user" \in fail THEN [ok |-> FALSE, set |-> user_whitelist]
  ELSE [ok |-> TRUE, set |-> user_whitelist \cup {toLowerCase(identifier)}]

\* A variant that removes the identifier as given, without lowercasing it.
removeFromWhitelist_AsGiven(identifier, fail) ==
  IF identifier = NoString THEN [ok |-> FALSE, set |-> user_whitelist]
  ELSE IF "sRem_user" \in fail THEN [ok |-> FALSE, set |-> user_whitelist]
  ELSE [ok |-> TRUE, set |-> user_whitelist \ {identifier}]

\* removeFromWhitelist: the returned flag and the set afterwards.
removeFromWhitelist(identifier, fail) ==
  IF identifier = NoString THEN [ok |-> FALSE, set |-> user_whitelist]
  ELSE IF "sRem_user" \in fail THEN [ok |-> FALSE, set |-> user_whitelist]
  ELSE [ok |-> TRUE, set |-> user_whitelist \ {toLowerCase(identifier)}]

\* A variant that fails open: a membership read that throws counts as a hit.
isUserAdmin_FailOpen(identifier, fail) ==
  IF identifier = NoString THEN FALSE
  ELSE IF "sIsMember_admin" \in fail THEN TRUE
  ELSE toLowerCase(identifier) \in admin_whitelist

\* isUserAdmin: no disable switch; false when the membership read throws.
isUserAdmin(identifier, fail) ==
  IF identifier = NoString THEN FALSE
  ELSE IF "sIsMember_admin" \in fail THEN FALSE
  ELSE toLowerCase(identifier) \in admin_whitelist

\* A variant that stores the identifier as given, without lowercasing it.
addAdmin_AsGiven(identifier, fail) ==
  IF identifier = NoString THEN [ok |-> FALSE, set |-> admin_whitelist]
  ELSE IF "sAdd_admin" \in fail THEN [ok |-> FALSE, set |-> admin_whitelist]
  ELSE [ok |-> TRUE, set |-> admin_whitelist \cup {identifier}]

\* addAdmin: the returned flag and the set afterwards.
addAdmin(identifier, fail) ==
  IF identifier = NoString THEN [ok |-> FALSE, set |-> admin_whitelist]
  ELSE IF "sAdd_admin" \in fail THEN [ok |-> FALSE, set |-> admin_whitelist]
  ELSE [ok |-> TRUE, set |-> admin_whitelist \cup {toLowerCase(identifier)}]

\* ---------------------------------------------------------- the middleware
\* session.user_data?.email || session.user_data?.user_id
GoogleIdentifier(g) ==
  IF g.user_data.email # NoString THEN g.user_data.email ELSE g.user_data.user_id

\* now > new Date(session.expires_at)
GoogleExpired(g) == now > g.expires_at

\* What the session lookup of a middleware finds for a token: outcome is
\* "found", "expired" (an IdentitySession past its expires_at, which the
\* lookup deletes), "none" or "error" (a store call threw).
Lookup(outcome, userIdentifier, sessionType) ==
  [outcome |-> outcome, userIdentifier |-> userIdentifier, sessionType |-> sessionType]

\* A variant that identifies an IdentitySession by its account id even when
\* the profile has an email.
ResolveSession_AccountId(tok, fail) ==
  IF "get" \in fail THEN Lookup("error", NoString, "none")
  ELSE IF session[tok] # Null THEN Lookup("found", session[tok].user_id, "zerodha")
  ELSE IF google_session[tok] # Null THEN
    IF GoogleExpired(google_session[tok]) THEN
      IF "del" \in fail THEN Lookup("error", NoString, "none")
      ELSE Lookup("expired", NoString, "none")
    ELSE Lookup("found", google_session[tok].user_data.user_id, "google")
  ELSE Lookup("none", NoString, "none")

\* The lookup of checkWhitelistMiddleware: session:<tok> first, then
\* google_session:<tok> with its expiry check.
ResolveSession(tok, fail) ==
  IF "get" \in fail THEN Lookup("error", NoString, "none")
  ELSE IF session[tok] # Null THEN Lookup("found", session[tok].user_id, "zerodha")
  ELSE IF google_session[tok] # Null THEN
    IF GoogleExpired(google_session[tok]) THEN
      IF "del" \in fail THEN Lookup("error", NoString, "none")
      ELSE Lookup("expired", NoString, "none")
    ELSE Lookup("found", GoogleIdentifier(google_session[tok]), "google")
  ELSE Lookup("none", NoString, "none")

\* A variant that prefers the account id of an IdentitySession to its email.
ResolveAdminSession_AccountFirst(tok, fail) ==
  IF "get" \in fail THEN Lookup("error", NoString, "none")
  ELSE IF session[tok] # Null THEN Lookup("found", session[tok].user_id, "zerodha")
  ELSE IF google_session[tok] # Null
    THEN Lookup("found",
                IF google_session[tok].user_data.user_id # NoString
                THEN google_session[tok].user_data.user_id
                ELSE google_session[tok].user_data.email, "google")
  ELSE Lookup("none", NoString, "none")

\* The lookup of checkAdminMiddleware: the same two reads, no expiry check.
ResolveAdminSession(tok, fail) ==
  IF "get" \in fail THEN Lookup("error", NoString, "none")
  ELSE IF session[tok] # Null THEN Lookup("found", session[tok].user_id, "zerodha")
  ELSE IF google_session[tok] # Null
    THEN Lookup("found", GoogleIdentifier(google_session[tok]), "google")
  ELSE Lookup("none", NoString, "none")

\* What a middleware hands back: mw is "next" or the status it answered with,
\* user is req.user (for a 403, the user_id of the body), del says that it
\* deleted google_session:<tok>.
Verdict(mw, user, del) == [mw |-> mw, user |-> user, del |-> del]

\* A variant that asks for a session token before it looks at the feature
\* switch.
checkWhitelistMiddleware_TokenFirst(tok, fail) ==
  IF tok = NoToken THEN Verdict("401", NoUser, FALSE)
  ELSE IF ~ENABLE_WHITELIST THEN Verdict("next", NoUser, FALSE)
  ELSE LET found == ResolveSession(tok, fail) IN
    IF found.outcome = "error" THEN Verdict("500", NoUser, FALSE)
    ELSE IF found.outcome = "expired" THEN Verdict("401", NoUser, TRUE)
    ELSE IF found.userIdentifier = NoString THEN Verdict("401", NoUser, FALSE)
    ELSE IF ~isUserWhitelisted(found.userIdentifier, fail)
      THEN Verdict("403", [NoUser EXCEPT !.identifier = found.userIdentifier], FALSE)
    ELSE Verdict("next", [identifier |-> found.userIdentifier,
                          session_type |-> found.sessionType, is_admin |-> FALSE],
                 FALSE)

\* A variant that answers a request without a token with 403.
checkWhitelistMiddleware_MissingForbidden(tok, fail) ==
  IF ~ENABLE_WHITELIST THEN Verdict("next", NoUser, FALSE)
  ELSE IF tok = NoToken THEN Verdict("403", NoUser, FALSE)
  ELSE LET found == ResolveSession(tok, fail) IN
    IF found.outcome = "error" THEN Verdict("500", NoUser, FALSE)
    ELSE IF found.outcome = "expired" THEN Verdict("401", NoUser, TRUE)
    ELSE IF found.userIdentifier = NoString THEN Verdict("401", NoUser, FALSE)
    ELSE IF ~isUserWhitelisted(found.userIdentifier, fail)
      THEN Verdict("403", [NoUser EXCEPT !.identifier = found.userIdentifier], FALSE)
    ELSE Verdict("next", [identifier |-> found.userIdentifier,
                          session_type |-> found.sessionType, is_admin |-> FALSE],
                 FALSE)

\* A variant that answers 500 when the membership read threw.
checkWhitelistMiddleware_ReportStoreError(tok, fail) ==
  IF ~ENABLE_WHITELIST THEN Verdict("next", NoUser, FALSE)
  ELSE IF tok = NoToken THEN Verdict("401", NoUser, FALSE)
  ELSE LET found == ResolveSession(tok, fail) IN
    IF found.outcome = "error" THEN Verdict("500", NoUser, FALSE)
    ELSE IF found.outcome = "expired" THEN Verdict("401", NoUser, TRUE)
    ELSE IF found.userIdentifier = NoString THEN Verdict("401", NoUser, FALSE)
    ELSE IF "sIsMember_user" \in fail THEN Verdict("500", NoUser, FALSE)
    ELSE IF ~isUserWhitelisted(found.userIdentifier, fail)
      THEN Verdict("403", [NoUser EXCEPT !.identifier = found.userIdentifier], FALSE)
    ELSE Verdict("next", [identifier |-> found.userIdentifier,
                          session_type |-> found.sessionType, is_admin |-> FALSE],
                 FALSE)

\* checkWhitelistMiddleware(req, res, next)
checkWhitelistMiddleware(tok, fail) ==
  IF ~ENABLE_WHITELIST THEN Verdict("next", NoUser, FALSE)
  ELSE IF tok = NoToken THEN Verdict("401", NoUser, FALSE)
  ELSE LET found == ResolveSession(tok, fail) IN
    IF found.outcome = "error" THEN Verdict("500", NoUser, FALSE)
    ELSE IF found.outcome = "expired" THEN Verdict("401", NoUser, TRUE)
    ELSE IF found.userIdentifier = NoString THEN Verdict("401", NoUser, FALSE)
    ELSE IF ~isUserWhitelisted(found.userIdentifier, fail)
      THEN Verdict("403", [NoUser EXCEPT !.identifier = found.userIdentifier], FALSE)
    ELSE Verdict("next", [identifier |-> found.userIdentifier,
                          session_type |-> found.sessionType, is_admin |-> FALSE],
                 FALSE)

SuperAdmin == [identifier |-> <<"super_admin">>, session_type |-> "none", is_admin |-> TRUE]

\* A variant that, like the whitelist middleware, lets everyone through when
\* the whitelist feature is off.
checkAdminMiddleware_DisableSwitch(tok, fail) ==
  IF SUPER_ADMIN_MODE THEN Verdict("next", SuperAdmin, FALSE)
  ELSE IF ~ENABLE_WHITELIST THEN Verdict("next", NoUser, FALSE)
  ELSE IF tok = NoToken THEN Verdict("401", NoUser, FALSE)
  ELSE LET found == ResolveAdminSession(tok, fail) IN
    IF found.outcome = "error" THEN Verdict("500", NoUser, FALSE)
    ELSE IF found.userIdentifier = NoString THEN Verdict("401", NoUser, FALSE)
    ELSE IF ~isUserAdmin(found.userIdentifier, fail)
      THEN Verdict("403", [NoUser EXCEPT !.identifier = found.userIdentifier], FALSE)
    ELSE Verdict("next", [identifier |-> found.userIdentifier,
                          session_type |-> "none", is_admin |-> TRUE], FALSE)

\* A variant that asks for a session token before it looks at the bypass.
checkAdminMiddleware_TokenFirst(tok, fail) ==
  IF tok = NoToken THEN Verdict("401", NoUser, FALSE)
  ELSE IF SUPER_ADMIN_MODE THEN Verdict("next", SuperAdmin, FALSE)
  ELSE LET found == ResolveAdminSession(tok, fail) IN
    IF found.outcome = "error" THEN Verdict("500", NoUser, FALSE)
    ELSE IF found.userIdentifier = NoString THEN Verdict("401", NoUser, FALSE)
    ELSE IF ~isUserAdmin(found.userIdentifier, fail)
      THEN Verdict("403", [NoUser EXCEPT !.identifier = found.userIdentifier], FALSE)
    ELSE Verdict("next", [identifier |-> found.userIdentifier,
                          session_type |-> "none", is_admin |-> TRUE], FALSE)

\* checkAdminMiddleware(req, res, next)
checkAdminMiddleware(tok, fail) ==
  IF SUPER_ADMIN_MODE THEN Verdict("next", SuperAdmin, FALSE)
  ELSE IF tok = NoToken THEN Verdict("401", NoUser, FALSE)
  ELSE LET found == ResolveAdminSession(tok, fail) IN
    IF found.outcome = "error" THEN Verdict("500", NoUser, FALSE)
    ELSE IF found.userIdentifier = NoString THEN Verdict("401", NoUser, FALSE)
    ELSE IF ~isUserAdmin(found.userIdentifier, fail)
      THEN Verdict("403", [NoUser EXCEPT !.identifier = found.userIdentifier], FALSE)
    ELSE Verdict("next", [identifier |-> found.userIdentifier,
                          session_type |-> "none", is_admin |-> TRUE], FALSE)

\* The session store after a middleware ran (the lazy expiry deletes a key).
AfterMiddleware(tok, v) ==
  IF v.del THEN [google_session EXCEPT ![tok] = Null] ELSE google_session

\* ------------------------------------------------------------ initial state
\* The deployments considered: production (whitelist on, bypass off, setup
\* key set), whitelist off, bypass on, and two with the setup key unset and
\* one provider's credentials missing.
Profiles ==
  {<<TRUE, FALSE, "k1", TRUE, TRUE>>,
   <<FALSE, FALSE, "k1", TRUE, TRUE>>,
   <<TRUE, TRUE, "k1", TRUE, TRUE>>,
   <<TRUE, FALSE, NoKey, FALSE, TRUE>>,
   <<FALSE, TRUE, NoKey, TRUE, FALSE>>}

Artifacts == 1..MaxArtifacts

\* No artifact has been presented to the brokerage yet.
NoExchange == [accepted |-> {}, created |-> [r \in Artifacts |-> {}], replay |-> FALSE]

\* No direct registry call has been made.
Idle == [pc |-> "idle", id |-> NoString, before |-> {}, ok |-> FALSE]

Init ==
  /\ \E p \in Profiles :
       /\ ENABLE_WHITELIST = p[1]
       /\ SUPER_ADMIN_MODE = p[2]
       /\ INITIAL_ADMIN_SETUP_KEY = p[3]
       /\ KITE_CONFIGURED = p[4]
       /\ GOOGLE_CONFIGURED = p[5]
  /\ user_whitelist = {}
  /\ admin_whitelist = {}
  /\ session = [t \in Tokens |-> Null]
  /\ google_session = [t \in Tokens |-> Null]
  /\ now = 0
  /\ minted = 0
  /\ res = Plain("start", 0)
  /\ denied = {}
  /\ probe = Idle
  /\ exchanged = NoExchange
  /\ bootstrapped = {}
  /\ late = {}
  /\ inflight = {}

\* Session tokens a request may carry: none, or any token (minted or not).
RequestTokens == {NoToken} \cup Tokens

\* ------------------------------------------------------------------- clock
\* Redis drops a key when its TTL has elapsed.
Expire(store, t) ==
  [k \in Tokens |-> IF store[k] # Null /\ store[k].ttl_at <= t THEN Null ELSE store[k]]

Tick ==
  \E d \in TickSteps :
    /\ now + d <= MaxTime
    /\ now' = now + d
    /\ session' = Expire(session, now + d)
    /\ google_session' = Expire(google_session, now + d)
    /\ UNCHANGED <<config, history, inflight, registry, minted, res>>

\* --------------------------------------------------------- token exchanges
\* What the brokerage's token endpoint may answer.
BrokerOutcomes == {"ok", "409", "403", "error"}

\* A variant that maps every failure of the exchange to 500.
ZerodhaErrorStatus_Generic(outcome) == 500

\* The status the callback answers with when the exchange throws.
ZerodhaErrorStatus(outcome) ==
  IF outcome = "409" THEN 409 ELSE IF outcome = "403" THEN 403 ELSE 500

\* A variant that does not look at the app key and secret before it calls
\* the brokerage.
ZerodhaCallbackHandler_NoConfigCheck(hasRequestToken, outcome, userId, fail) ==
  /\ UNCHANGED <<config, registry, google_session, now>>
  /\ IF ~hasRequestToken THEN
       /\ res' = Plain("zerodha_callback", 400)
       /\ UNCHANGED <<session, minted>>
     ELSE IF outcome # "ok" THEN
       /\ res' = Called(Plain("zerodha_callback", ZerodhaErrorStatus(outcome)),
                         <<"kite_token">>)
       /\ UNCHANGED <<session, minted>>
     ELSE
       /\ minted < MaxTokens + MoreTokens
       /\ minted' = minted + 1
       /\ IF "setEx" \in fail THEN
            /\ res' = Called(Plain("zerodha_callback", 500), <<"kite_token">>)
            /\ UNCHANGED session
          ELSE
            /\ session' = [session EXCEPT ![minted + 1] =
                 [kind |-> "zerodha", access_token |-> "kite_access_token",
                  user_id |-> userId, ttl_at |-> now + ZERODHA_TTL]]
            /\ res' = Called(Response("zerodha_callback", 302, minted + 1,
                                      [identifier |-> userId,
                                       session_type |-> "zerodha",
                                       is_admin |-> FALSE]),
                              <<"kite_token">>)

\* A variant that, like the identity exchange, goes on when the store write
\* throws.
ZerodhaCallbackHandler_SwallowStoreFailure(hasRequestToken, outcome, userId, fail) ==
  /\ UNCHANGED <<config, registry, google_session, now>>
  /\ IF ~hasRequestToken THEN
       /\ res' = Plain("zerodha_callback", 400)
       /\ UNCHANGED <<session, minted>>
     ELSE IF ~KITE_CONFIGURED THEN
       /\ res' = Plain("zerodha_callback", 500)
       /\ UNCHANGED <<session, minted>>
     ELSE IF outcome # "ok" THEN
       /\ res' = Called(Plain("zerodha_callback", ZerodhaErrorStatus(outcome)),
                         <<"kite_token">>)
       /\ UNCHANGED <<session, minted>>
     ELSE
       /\ minted < MaxTokens + MoreTokens
       /\ minted' = minted + 1
       /\ session' =
            IF "setEx" \in fail THEN session
            ELSE [session EXCEPT ![minted + 1] =
                   [kind |-> "zerodha", access_token |-> "kite_access_token",
                    user_id |-> userId, ttl_at |-> now + ZERODHA_TTL]]
       /\ res' = Called(Response("zerodha_callback", 302, minted + 1,
                                 [identifier |-> userId,
                                  session_type |-> "zerodha",
                                  is_admin |-> FALSE]),
                         <<"kite_token">>)

\* GET /api/zerodha/auth/callback: what the handler does to the program's
\* state.
ZerodhaCallbackHandler(hasRequestToken, outcome, userId, fail) ==
  /\ UNCHANGED <<config, registry, google_session, now>>
  /\ IF ~hasRequestToken THEN
       /\ res' = Plain("zerodha_callback", 400)
       /\ UNCHANGED <<session, minted>>
     ELSE IF ~KITE_CONFIGURED THEN
       /\ res' = Plain("zerodha_callback", 500)
       /\ UNCHANGED <<session, minted>>
     ELSE IF outcome # "ok" THEN
       /\ res' = Called(Plain("zerodha_callback", ZerodhaErrorStatus(outcome)),
                         <<"kite_token">>)
       /\ UNCHANGED <<session, minted>>
     ELSE
       /\ minted < MaxTokens + MoreTokens
       /\ minted' = minted + 1
       /\ IF "setEx" \in fail THEN
            /\ res' = Called(Plain("zerodha_callback", 500), <<"kite_token">>)
            /\ UNCHANGED session
          ELSE
            /\ session' = [session EXCEPT ![minted + 1] =
                 [kind |-> "zerodha", access_token |-> "kite_access_token",
                  user_id |-> userId, ttl_at |-> now + ZERODHA_TTL]]
            /\ res' = Called(Response("zerodha_callback", 302, minted + 1,
                                      [identifier |-> userId,
                                       session_type |-> "zerodha",
                                       is_admin |-> FALSE]),
                              <<"kite_token">>)

ZerodhaCallbackReq(hasRequestToken, outcome, userId, fail) ==
  /\ ZerodhaCallbackHandler(hasRequestToken, outcome, userId, fail)
  /\ UNCHANGED <<history, inflight>>

ZerodhaCallback ==
  \/ \E outcome \in BrokerOutcomes \ {"ok"} :
       ZerodhaCallbackReq(TRUE, outcome, <<"A">>, {})
  \/ ZerodhaCallbackReq(FALSE, "ok", <<"A">>, {})
  \/ \E userId \in BrokerUserIds, fail \in SUBSET {"setEx"} :
       ZerodhaCallbackReq(TRUE, "ok", userId, fail)

\* What an upstream call of the identity exchange may end with: an answer,
\* an HTTP error status, a timeout, or no connection.
GoogleOutcomes == {"ok", "400", "401", "403", "500", "ECONNABORTED", "ENOTFOUND"}

\* The status the identity exchange answers with when an upstream call throws.
GoogleErrorStatus(outcome) ==
  CASE outcome = "400" -> 400
    [] outcome = "401" -> 401
    [] outcome = "403" -> 403
    [] outcome = "500" -> 500
    [] outcome = "ECONNABORTED" -> 408
    [] outcome = "ENOTFOUND" -> 503
    [] OTHER -> 500

\* The profile and token answer of the identity provider.
GoogleAnswer(hasAccessToken, email, id, expires_in) ==
  [hasAccessToken |-> hasAccessToken, email |-> email, id |-> id,
   expires_in |-> expires_in]

GoogleAnswers ==
  {GoogleAnswer(TRUE, e, i, x) : e \in GoogleEmails, i \in GoogleIds, x \in ExpiresIn}

\* A variant that looks at the client id and secret only after the code
\* exchange has been called.
GoogleTokenHandler_ConfigAfterCall(code, redirect_uri, tokenCall, userCall, answer, fail) ==
  /\ UNCHANGED <<config, registry, session, now, google_session, minted>>
  /\ ~GOOGLE_CONFIGURED
  /\ res' = IF ~code \/ ~redirect_uri THEN Plain("google_token", 400)
            ELSE Called(Plain("google_token", 500), <<"google_token">>)

\* POST /api/auth/google/token: what the handler does to the program's
\* state.
GoogleTokenHandler(code, redirect_uri, tokenCall, userCall, answer, fail) ==
  /\ UNCHANGED <<config, registry, session, now>>
  /\ IF ~code \/ ~redirect_uri THEN
       /\ res' = Plain("google_token", 400)
       /\ UNCHANGED <<google_session, minted>>
     ELSE IF ~GOOGLE_CONFIGURED THEN
       /\ res' = Plain("google_token", 500)
       /\ UNCHANGED <<google_session, minted>>
     ELSE IF tokenCall # "ok" THEN
       /\ res' = Called(Plain("google_token", GoogleErrorStatus(tokenCall)),
                         <<"google_token">>)
       /\ UNCHANGED <<google_session, minted>>
     ELSE IF ~answer.hasAccessToken THEN
       /\ res' = Called(Plain("google_token", 500), <<"google_token">>)
       /\ UNCHANGED <<google_session, minted>>
     ELSE IF userCall # "ok" THEN
       /\ res' = Called(Plain("google_token", GoogleErrorStatus(userCall)),
                         <<"google_token", "google_userinfo">>)
       /\ UNCHANGED <<google_session, minted>>
     ELSE IF ENABLE_WHITELIST /\ ~isUserWhitelisted(answer.email, fail)
                              /\ ~isUserWhitelisted(answer.id, fail) THEN
       /\ res' = Called(Plain("google_token", 403),
                         <<"google_token", "google_userinfo">>)
       /\ UNCHANGED <<google_session, minted>>
     ELSE
       /\ minted < MaxTokens + MoreTokens
       /\ minted' = minted + 1
       /\ google_session' =
            IF "setEx" \in fail THEN google_session
            ELSE [google_session EXCEPT ![minted + 1] =
                   [kind |-> "google", access_token |-> "google_access_token",
                    user_data |-> [user_id |-> answer.id, email |-> answer.email],
                    expires_at |-> now + answer.expires_in,
                    ttl_at |-> now + GOOGLE_TTL]]
       /\ res' = Called(Response("google_token", 200, minted + 1,
                                 [identifier |-> IF answer.email # NoString
                                                 THEN answer.email ELSE answer.id,
                                  session_type |-> "google", is_admin |-> FALSE]),
                         <<"google_token", "google_userinfo">>)

GoogleTokenReq(code, redirect_uri, tokenCall, userCall, answer, fail) ==
  /\ GoogleTokenHandler(code, redirect_uri, tokenCall, userCall, answer, fail)
  /\ UNCHANGED <<history, inflight>>

GoogleToken ==
  LET any == GoogleAnswer(TRUE, NoString, <<"b">>, 3599) IN
  \/ \E code \in BOOLEAN, redirect_uri \in BOOLEAN :
       /\ ~(code /\ redirect_uri)
       /\ GoogleTokenReq(code, redirect_uri, "ok", "ok", any, {})
  \/ \E tokenCall \in GoogleOutcomes \ {"ok"} :
       GoogleTokenReq(TRUE, TRUE, tokenCall, "ok", any, {})
  \/ GoogleTokenReq(TRUE, TRUE, "ok", "ok", [any EXCEPT !.hasAccessToken = FALSE], {})
  \/ \E userCall \in GoogleOutcomes \ {"ok"} :
       GoogleTokenReq(TRUE, TRUE, "ok", userCall, any, {})
  \/ \E answer \in GoogleAnswers, fail \in SUBSET {"sIsMember_user", "setEx"} :
       GoogleTokenReq(TRUE, TRUE, "ok", "ok", answer, fail)

\* ------------------------------------------------------------------ logout
\* The body of a logout answer: every logout answers 200, success: true.
LogoutBody(op, cleared, message) ==
  [Plain(op, 200) EXCEPT !.cleared = cleared, !.message = message]

\* What the revocation call to the identity provider may end with.
RevokeOutcomes == {"ok", "400", "ECONNABORTED"}

\* A variant that revokes the provider's token and leaves the session record.
GoogleLogoutResult_KeepSession(tok, access_token, revoke, fail) ==
  [google |-> google_session,
   body |-> LogoutBody("google_logout", tok # NoToken, "Logout successful")]

\* POST /api/auth/google/logout: access_token says whether the body carries
\* the provider's access token, revoke how the revocation call ends.  The
\* body reports session_cleared: !!session_token.  The result is the
\* identity sessions afterwards and the answer.
GoogleLogoutResult(tok, access_token, revoke, fail) ==
  [google |-> IF tok # NoToken /\ "del" \notin fail
              THEN [google_session EXCEPT ![tok] = Null] ELSE google_session,
   body |-> LogoutBody("google_logout", tok # NoToken, "Logout successful")]

GoogleLogoutApply(r) ==
  /\ UNCHANGED <<config, history, inflight, registry, session, now, minted>>
  /\ google_session' = r.google
  /\ res' = r.body

GoogleLogoutReq(tok, access_token, revoke, fail) ==
  GoogleLogoutApply(GoogleLogoutResult(tok, access_token, revoke, fail))

\* Every request, each distinct effect once.
GoogleLogout ==
  \E r \in {GoogleLogoutResult(tok, access_token, revoke, fail) :
              tok \in RequestTokens, access_token \in BOOLEAN,
              revoke \in RevokeOutcomes, fail \in SUBSET {"del"}} :
    GoogleLogoutApply(r)

\* A variant that reports a failed delete to the caller.
LogoutResult_ReportFailure(tok, broker, fail) ==
  IF tok = NoToken THEN
    [session |-> session, google |-> google_session,
     body |-> LogoutBody("logout", FALSE, "No session to clear")]
  ELSE IF "del" \in fail THEN
    [session |-> session, google |-> google_session,
     body |-> Plain("logout", 500)]
  ELSE IF broker = "google" THEN
    [session |-> session, google |-> [google_session EXCEPT ![tok] = Null],
     body |-> LogoutBody("logout", google_session[tok] # Null, "Logout successful")]
  ELSE
    [session |-> [session EXCEPT ![tok] = Null], google |-> google_session,
     body |-> LogoutBody("logout", session[tok] # Null, "Logout successful")]

\* POST /api/auth/logout: the body reports session_cleared: deleted > 0.
\* The result is the two namespaces afterwards and the answer.
LogoutResult(tok, broker, fail) ==
  IF tok = NoToken THEN
    [session |-> session, google |-> google_session,
     body |-> LogoutBody("logout", FALSE, "No session to clear")]
  ELSE IF "del" \in fail THEN
    [session |-> session, google |-> google_session,
     body |-> LogoutBody("logout", FALSE, "Logout completed (session cleanup failed)")]
  ELSE IF broker = "google" THEN
    [session |-> session, google |-> [google_session EXCEPT ![tok] = Null],
     body |-> LogoutBody("logout", google_session[tok] # Null, "Logout successful")]
  ELSE
    [session |-> [session EXCEPT ![tok] = Null], google |-> google_session,
     body |-> LogoutBody("logout", session[tok] # Null, "Logout successful")]

LogoutApply(r) ==
  /\ UNCHANGED <<config, history, inflight, registry, now, minted>>
  /\ session' = r.session
  /\ google_session' = r.google
  /\ res' = r.body

LogoutReq(tok, broker, fail) == LogoutApply(LogoutResult(tok, broker, fail))

\* Every request, each distinct effect once.
Logout ==
  \E r \in {LogoutResult(tok, broker, fail) :
              tok \in RequestTokens, broker \in {"zerodha", "google"},
              fail \in SUBSET {"del"}} :
    LogoutApply(r)

\* ------------------------------------------------------ protected endpoint
\* What the brokerage's holdings endpoint may answer.
HoldingsOutcomes == {"ok", "403", "409", "error"}

HoldingsErrorStatus(outcome) ==
  IF outcome = "403" THEN 403 ELSE IF outcome = "409" THEN 409 ELSE 500

\* The holdings handler proper, reached when the middleware called next.
HoldingsHandler(tok, outcome, fail) ==
  IF tok = NoToken THEN 400
  ELSE IF "get" \in fail THEN 500
  ELSE IF session[tok] = Null THEN 401
  ELSE IF outcome = "ok" THEN 200
  ELSE HoldingsErrorStatus(outcome)

\* A variant that goes to the brokerage with whatever record the token has.
HoldingsCalls_AnySession(tok, fail) ==
  IF tok # NoToken /\ "get" \notin fail
     /\ (session[tok] # Null \/ google_session[tok] # Null)
  THEN <<"kite_holdings">> ELSE << >>

\* The calls to the brokerage the holdings handler makes: one, once it has
\* read the session record.
HoldingsCalls(tok, fail) ==
  IF tok # NoToken /\ "get" \notin fail /\ session[tok] # Null
  THEN <<"kite_holdings">> ELSE << >>

\* The status a route answers with when its middleware rejected.
MiddlewareStatus(v) ==
  CASE v.mw = "401" -> 401 [] v.mw = "403" -> 403 [] OTHER -> 500

\* GET /api/zerodha/holdings, behind checkWhitelistMiddleware
\* What a holdings request does: the answer, and what the middleware's lazy
\* expiry leaves of the identity sessions.  mwFail and hFail are the store
\* calls that throw in the middleware and in the handler.
HoldingsResult(tok, outcome, mwFail, hFail) ==
  LET v == checkWhitelistMiddleware(tok, mwFail) IN
  [status |-> IF v.mw = "next" THEN HoldingsHandler(tok, outcome, hFail)
              ELSE MiddlewareStatus(v),
   user |-> v.user,
   upstream |-> IF v.mw = "next" THEN HoldingsCalls(tok, hFail) ELSE << >>,
   google |-> AfterMiddleware(tok, v),
   refused |-> IF v.mw = "403" THEN {tok} ELSE {}]

HoldingsApply(r) ==
  /\ UNCHANGED <<config, probe, exchanged, bootstrapped, late, inflight, registry, session, now, minted>>
  /\ google_session' = r.google
  /\ denied' = denied \cup r.refused
  /\ res' = Called(Response("holdings", r.status, NoToken, r.user), r.upstream)

HoldingsReq(tok, outcome, mwFail, hFail) ==
  HoldingsApply(HoldingsResult(tok, outcome, mwFail, hFail))

\* Every request, each distinct effect once.
Holdings ==
  \E r \in {HoldingsResult(tok, outcome, mwFail, hFail) :
              tok \in RequestTokens, outcome \in HoldingsOutcomes,
              mwFail \in SUBSET {"get", "sIsMember_user", "del"},
              hFail \in SUBSET {"get"}} :
    HoldingsApply(r)

\* GET /api/zerodha/holdings-ai, behind checkWhitelistMiddleware.  single
\* says that the query names one stock (symbol, company or stockname): that
\* analysis reads no session and asks the brokerage for nothing; the bulk
\* analysis reads the brokerage session and fetches its holdings.
HoldingsAiHandler(tok, single, outcome, fail) ==
  IF tok = NoToken THEN 400
  ELSE IF single THEN 200
  ELSE IF "get" \in fail THEN 500
  ELSE IF session[tok] = Null THEN 400
  ELSE IF outcome = "ok" THEN 200
  ELSE HoldingsErrorStatus(outcome)

\* The calls to the brokerage the bulk analysis makes.
HoldingsAiCalls(tok, single, fail) ==
  IF tok # NoToken /\ ~single /\ "get" \notin fail /\ session[tok] # Null
  THEN <<"kite_holdings">> ELSE << >>

HoldingsAiResult(tok, single, outcome, mwFail, hFail) ==
  LET v == checkWhitelistMiddleware(tok, mwFail) IN
  [status |-> IF v.mw = "next" THEN HoldingsAiHandler(tok, single, outcome, hFail)
              ELSE MiddlewareStatus(v),
   user |-> v.user,
   upstream |-> IF v.mw = "next" THEN HoldingsAiCalls(tok, single, hFail) ELSE << >>,
   google |-> AfterMiddleware(tok, v),
   refused |-> IF v.mw = "403" THEN {tok} ELSE {}]

HoldingsAiApply(r) ==
  /\ UNCHANGED <<config, probe, exchanged, bootstrapped, late, inflight, registry, session, now, minted>>
  /\ google_session' = r.google
  /\ denied' = denied \cup r.refused
  /\ res' = Called(Response("holdings_ai", r.status, NoToken, r.user), r.upstream)

HoldingsAiReq(tok, single, outcome, mwFail, hFail) ==
  HoldingsAiApply(HoldingsAiResult(tok, single, outcome, mwFail, hFail))

\* Every request, each distinct effect once.
HoldingsAi ==
  \E r \in {HoldingsAiResult(tok, single, outcome, mwFail, hFail) :
              tok \in RequestTokens, single \in BOOLEAN,
              outcome \in HoldingsOutcomes,
              mwFail \in SUBSET {"get", "sIsMember_user", "del"},
              hFail \in SUBSET {"get"}} :
    HoldingsAiApply(r)

\* --------------------------------------------------------------- bootstrap
\* The outcome of a handler that writes both sets: status and sets afterwards.
Outcome(status, admins, users) == [status |-> status, admins |-> admins, users |-> users]

\* A variant without the admin count: bootstrap can be repeated.
AdminSetupHandler_Repeatable(setup_key, admin_identifier, fail) ==
  IF INITIAL_ADMIN_SETUP_KEY = NoKey \/ setup_key # INITIAL_ADMIN_SETUP_KEY
    THEN Outcome(403, admin_whitelist, user_whitelist)
  ELSE IF admin_identifier = NoString
    THEN Outcome(400, admin_whitelist, user_whitelist)
  ELSE LET adminAdded == addAdmin(admin_identifier, fail)
           whitelistAdded == addToWhitelist(admin_identifier, fail) IN
    Outcome(IF adminAdded.ok /\ whitelistAdded.ok THEN 200 ELSE 500,
            adminAdded.set, whitelistAdded.set)

\* A variant that only compares the keys: with no secret configured, a
\* request without a key passes.
AdminSetupHandler_CompareOnly(setup_key, admin_identifier, fail) ==
  IF setup_key # INITIAL_ADMIN_SETUP_KEY
    THEN Outcome(403, admin_whitelist, user_whitelist)
  ELSE IF admin_identifier = NoString
    THEN Outcome(400, admin_whitelist, user_whitelist)
  ELSE IF "sCard" \in fail
    THEN Outcome(500, admin_whitelist, user_whitelist)
  ELSE IF Cardinality(admin_whitelist) > 0
    THEN Outcome(409, admin_whitelist, user_whitelist)
  ELSE LET adminAdded == addAdmin(admin_identifier, fail)
           whitelistAdded == addToWhitelist(admin_identifier, fail) IN
    Outcome(IF adminAdded.ok /\ whitelistAdded.ok THEN 200 ELSE 500,
            adminAdded.set, whitelistAdded.set)

\* POST /api/admin/setup
AdminSetupHandler(setup_key, admin_identifier, fail) ==
  IF INITIAL_ADMIN_SETUP_KEY = NoKey \/ setup_key # INITIAL_ADMIN_SETUP_KEY
    THEN Outcome(403, admin_whitelist, user_whitelist)
  ELSE IF admin_identifier = NoString
    THEN Outcome(400, admin_whitelist, user_whitelist)
  ELSE IF "sCard" \in fail
    THEN Outcome(500, admin_whitelist, user_whitelist)
  ELSE IF Cardinality(admin_whitelist) > 0
    THEN Outcome(409, admin_whitelist, user_whitelist)
  ELSE LET adminAdded == addAdmin(admin_identifier, fail)
           whitelistAdded == addToWhitelist(admin_identifier, fail) IN
    Outcome(IF adminAdded.ok /\ whitelistAdded.ok THEN 200 ELSE 500,
            adminAdded.set, whitelistAdded.set)

AdminSetupApply(o) ==
  /\ UNCHANGED <<config, history, inflight, sessions, now>>
  /\ admin_whitelist' = o.admins
  /\ user_whitelist' = o.users
  /\ res' = Plain("setup", o.status)

AdminSetupReq(setup_key, admin_identifier, fail) ==
  AdminSetupApply(AdminSetupHandler(setup_key, admin_identifier, fail))

\* Every request, each distinct effect once.
AdminSetup ==
  \E o \in {AdminSetupHandler(setup_key, admin_identifier, fail) :
              setup_key \in SetupKeys, admin_identifier \in Identifiers,
              fail \in SUBSET {"sCard", "sAdd_admin", "sAdd_user"}} :
    AdminSetupApply(o)

\* ------------------------------------------------------ session validation
\* The body of a validation's answer; user_id is
\* session.user_data?.user_id || session.user_id.
ValidateBody(status, valid, message, user_id) ==
  [Response("validate", status, NoToken, [NoUser EXCEPT !.identifier = user_id])
     EXCEPT !.valid = valid, !.message = message]

\* A variant that extends the lifetime of the session it found valid.
ValidateResult_Refresh(tok, broker, fail) ==
  IF tok # NoToken /\ broker = "google" /\ google_session[tok] # Null
     /\ ~GoogleExpired(google_session[tok])
  THEN [google |-> [google_session EXCEPT ![tok].expires_at = now + GOOGLE_TTL],
        body |-> ValidateBody(200, TRUE, "Session is valid",
                              google_session[tok].user_data.user_id)]
  ELSE [google |-> google_session,
        body |-> ValidateBody(200, FALSE, "Session not found or expired", NoString)]

\* GET /api/auth/validate: reads the one key the broker parameter names
\* (google_session:<tok> for "google", session:<tok> otherwise), deletes an
\* IdentitySession past its expires_at.  The result is the identity
\* sessions afterwards and the answer.
ValidateResult(tok, broker, fail) ==
  LET r == IF broker = "google" THEN google_session[tok] ELSE session[tok] IN
  IF tok = NoToken THEN
    [google |-> google_session, body |-> ValidateBody(400, FALSE, "", NoString)]
  ELSE IF "get" \in fail THEN
    [google |-> google_session, body |-> ValidateBody(500, FALSE, "", NoString)]
  ELSE IF r = Null THEN
    [google |-> google_session,
     body |-> ValidateBody(200, FALSE, "Session not found or expired", NoString)]
  ELSE IF broker = "google" /\ GoogleExpired(r) THEN
    IF "del" \in fail
    THEN [google |-> google_session, body |-> ValidateBody(500, FALSE, "", NoString)]
    ELSE [google |-> [google_session EXCEPT ![tok] = Null],
          body |-> ValidateBody(200, FALSE, "Session expired", NoString)]
  ELSE
    [google |-> google_session,
     body |-> ValidateBody(200, TRUE, "Session is valid",
                           IF broker = "google" THEN r.user_data.user_id
                           ELSE r.user_id)]

ValidateApply(r) ==
  /\ UNCHANGED <<config, history, inflight, registry, session, now, minted>>
  /\ google_session' = r.google
  /\ res' = r.body

ValidateReq(tok, broker, fail) == ValidateApply(ValidateResult(tok, broker, fail))

\* Every request, each distinct effect once.
Validate ==
  \E r \in {ValidateResult(tok, broker, fail) :
              tok \in RequestTokens, broker \in {"zerodha", "google"},
              fail \in SUBSET {"get", "del"}} :
    ValidateApply(r)

\* ---------------------------------------------------- admin-only endpoints
\* A route behind checkAdminMiddleware: the handler's outcome o takes effect
\* only when the middleware called next.
AdminRouteResult(tok, fail, o) ==
  LET v == checkAdminMiddleware(tok, fail) IN
  [status |-> IF v.mw = "next" THEN o.status ELSE MiddlewareStatus(v),
   user |-> v.user,
   admins |-> IF v.mw = "next" THEN o.admins ELSE admin_whitelist,
   users |-> IF v.mw = "next" THEN o.users ELSE user_whitelist]

AdminRouteApply(op, r) ==
  /\ UNCHANGED <<config, history, inflight, sessions, now>>
  /\ admin_whitelist' = r.admins
  /\ user_whitelist' = r.users
  /\ res' = Response(op, r.status, NoToken, r.user)

AdminRoute(op, tok, fail, o) == AdminRouteApply(op, AdminRouteResult(tok, fail, o))

\* The store calls of the admin middleware that may throw.
AdminFails == SUBSET {"get", "sIsMember_admin"}

\* POST /api/admin/whitelist/add
WhitelistAddHandler(identifier, fail) ==
  IF identifier = NoString THEN Outcome(400, admin_whitelist, user_whitelist)
  ELSE LET added == addToWhitelist(identifier, fail) IN
    Outcome(IF added.ok THEN 200 ELSE 500, admin_whitelist, added.set)

WhitelistAddReq(tok, identifier, fail) ==
  AdminRoute("whitelist_add", tok, fail, WhitelistAddHandler(identifier, fail))

\* Every request, each distinct effect once.
WhitelistAdd ==
  \E r \in {AdminRouteResult(tok, mwFail, WhitelistAddHandler(identifier, hFail)) :
              tok \in RequestTokens, identifier \in Identifiers,
              mwFail \in AdminFails, hFail \in SUBSET {"sAdd_user"}} :
    AdminRouteApply("whitelist_add", r)

\* ADMIN_EMAIL is declared nowhere: evaluating it throws a ReferenceError.
ADMIN_EMAIL_declared == FALSE

\* A variant that takes the identifier out of both sets.
WhitelistRemoveHandler_AlsoAdmin(identifier, fail) ==
  IF identifier = NoString THEN Outcome(400, admin_whitelist, user_whitelist)
  ELSE Outcome(200, admin_whitelist \ {toLowerCase(identifier)},
               user_whitelist \ {toLowerCase(identifier)})

\* POST /api/admin/whitelist/remove
WhitelistRemoveHandler(identifier, fail) ==
  IF identifier = NoString THEN Outcome(400, admin_whitelist, user_whitelist)
  ELSE IF ~ADMIN_EMAIL_declared THEN Outcome(500, admin_whitelist, user_whitelist)
  ELSE LET removed == removeFromWhitelist(identifier, fail) IN
    Outcome(IF removed.ok THEN 200 ELSE 500, admin_whitelist, removed.set)

WhitelistRemoveReq(tok, identifier, fail) ==
  AdminRoute("whitelist_remove", tok, fail, WhitelistRemoveHandler(identifier, fail))

WhitelistRemove ==
  \E r \in {AdminRouteResult(tok, mwFail, WhitelistRemoveHandler(identifier, hFail)) :
              tok \in RequestTokens, identifier \in Identifiers,
              mwFail \in AdminFails, hFail \in SUBSET {"sRem_user"}} :
    AdminRouteApply("whitelist_remove", r)

\* The request bodies of a bulk add: no array (or an empty one), or an array
\* of identifiers (the empty string stands for any entry that is not a
\* non-empty string).
BulkBodies == {<< >>, <<NoString>>, <<<<"A">>>>, <<<<"b">>, NoString>>, <<<<"A">>, <<"b">>>>}

\* POST /api/admin/whitelist/bulk-add: bad is the set of positions whose
\* sAdd throws.
WhitelistBulkAddHandler(identifiers, bad) ==
  IF Len(identifiers) = 0 THEN Outcome(400, admin_whitelist, user_whitelist)
  ELSE Outcome(200, admin_whitelist,
               user_whitelist \cup
                 {toLowerCase(identifiers[i]) :
                    i \in {j \in DOMAIN identifiers :
                             identifiers[j] # NoString /\ j \notin bad}})

WhitelistBulkAddReq(tok, identifiers, fail, bad) ==
  AdminRoute("whitelist_bulk_add", tok, fail, WhitelistBulkAddHandler(identifiers, bad))

WhitelistBulkAdd ==
  \E r \in UNION {{AdminRouteResult(tok, mwFail, WhitelistBulkAddHandler(identifiers, bad)) :
                     tok \in RequestTokens, mwFail \in AdminFails,
                     bad \in SUBSET (DOMAIN identifiers)} :
                   identifiers \in BulkBodies} :
    AdminRouteApply("whitelist_bulk_add", r)

\* A variant that reports success as soon as the admin add succeeded.
AddAdminHandler_AdminOnly(identifier, fail) ==
  IF identifier = NoString THEN Outcome(400, admin_whitelist, user_whitelist)
  ELSE LET adminAdded == addAdmin(identifier, fail)
           whitelistAdded == addToWhitelist(identifier, fail) IN
    Outcome(IF adminAdded.ok THEN 200 ELSE 500,
            adminAdded.set, whitelistAdded.set)

\* A variant that grants admin rights without adding to the whitelist.
AddAdminHandler_NoWhitelist(identifier, fail) ==
  IF identifier = NoString THEN Outcome(400, admin_whitelist, user_whitelist)
  ELSE LET adminAdded == addAdmin(identifier, fail) IN
    Outcome(IF adminAdded.ok THEN 200 ELSE 500, adminAdded.set, user_whitelist)

\* POST /api/admin/add-admin
AddAdminHandler(identifier, fail) ==
  IF identifier = NoString THEN Outcome(400, admin_whitelist, user_whitelist)
  ELSE LET adminAdded == addAdmin(identifier, fail)
           whitelistAdded == addToWhitelist(identifier, fail) IN
    Outcome(IF adminAdded.ok /\ whitelistAdded.ok THEN 200 ELSE 500,
            adminAdded.set, whitelistAdded.set)

AddAdminReq(tok, identifier, fail) ==
  AdminRoute("add_admin", tok, fail, AddAdminHandler(identifier, fail))

AddAdmin ==
  \E r \in {AdminRouteResult(tok, mwFail, AddAdminHandler(identifier, hFail)) :
              tok \in RequestTokens, identifier \in Identifiers,
              mwFail \in AdminFails, hFail \in SUBSET {"sAdd_admin", "sAdd_user"}} :
    AdminRouteApply("add_admin", r)

\* ----------------------------------------------------------- specification
\* Every endpoint, at one instant: no session outlives its lifetime here.
Next ==
  \/ ZerodhaCallback /\ minted' <= MaxTokens
  \/ GoogleToken /\ minted' <= MaxTokens
  \/ GoogleLogout
  \/ Logout
  \/ Holdings
  \/ AdminSetup
  \/ WhitelistAdd
  \/ WhitelistRemove
  \/ WhitelistBulkAdd
  \/ AddAdmin

Spec == Init /\ [][Next]_vars

\* The session endpoints alone, with more tokens and with the clock, under
\* the production switches and with the whitelist feature off; the registry
\* is one that bootstrap and a whitelist add produce.
InitSessions ==
  /\ ENABLE_WHITELIST \in BOOLEAN
  /\ SUPER_ADMIN_MODE = FALSE
  /\ INITIAL_ADMIN_SETUP_KEY = "k1"
  /\ KITE_CONFIGURED = TRUE
  /\ GOOGLE_CONFIGURED = TRUE
  /\ admin_whitelist = {<<"a">>}
  /\ user_whitelist \in {{<<"a">>}, {<<"a">>, <<"b">>}}
  /\ session = [t \in Tokens |-> Null]
  /\ google_session = [t \in Tokens |-> Null]
  /\ now = 0
  /\ minted = 0
  /\ res = Plain("start", 0)
  /\ denied = {}
  /\ probe = Idle
  /\ exchanged = NoExchange
  /\ bootstrapped = {}
  /\ late = {}
  /\ inflight = {}

NextSessions ==
  \/ Tick
  \/ ZerodhaCallback
  \/ GoogleToken
  \/ GoogleLogout
  \/ Logout
  \/ Holdings

SpecSessions == InitSessions /\ [][NextSessions]_vars

\* The session endpoints with the validation endpoint.
NextValidate ==
  \/ Tick
  \/ ZerodhaCallback
  \/ GoogleToken
  \/ GoogleLogout
  \/ Logout
  \/ Holdings
  \/ Validate

SpecValidate == InitSessions /\ [][NextValidate]_vars

\* The two logins, the clock and the two holdings endpoints, with the
\* whitelist feature on or off and a registry of one administrator.
InitHoldings ==
  /\ InitSessions
  /\ user_whitelist = {<<"a">>}

NextHoldings ==
  \/ Tick
  \/ ZerodhaCallback
  \/ GoogleToken
  \/ Holdings
  \/ HoldingsAi

SpecHoldings == InitHoldings /\ [][NextHoldings]_vars

\* The registry functions called directly, one after the other, as the
\* handlers call them: probe keeps the last call, its identifier, and, across
\* an add that is followed by the remove of the same identifier, the
\* whitelist as it was before the add.
InitRegistry ==
  /\ ENABLE_WHITELIST \in BOOLEAN
  /\ SUPER_ADMIN_MODE = FALSE
  /\ INITIAL_ADMIN_SETUP_KEY = "k1"
  /\ KITE_CONFIGURED = TRUE
  /\ GOOGLE_CONFIGURED = TRUE
  /\ admin_whitelist = {}
  /\ user_whitelist = {}
  /\ session = [t \in Tokens |-> Null]
  /\ google_session = [t \in Tokens |-> Null]
  /\ now = 0
  /\ minted = 0
  /\ res = Plain("start", 0)
  /\ denied = {}
  /\ probe = Idle
  /\ exchanged = NoExchange
  /\ bootstrapped = {}
  /\ late = {}
  /\ inflight = {}

CallAddToWhitelist ==
  \E identifier \in Identifiers, fail \in SUBSET {"sAdd_user"} :
    LET added == addToWhitelist(identifier, fail) IN
    /\ user_whitelist' = added.set
    /\ probe' = [pc |-> "added", id |-> identifier, before |-> user_whitelist,
                 ok |-> added.ok]
    /\ UNCHANGED <<config, sessions, now, res, denied, exchanged, bootstrapped, late, inflight, admin_whitelist>>

CallRemoveFromWhitelist ==
  \E identifier \in Identifiers, fail \in SUBSET {"sRem_user"} :
    LET removed == removeFromWhitelist(identifier, fail)
        follows == probe.pc = "added" /\ probe.id = identifier /\ probe.ok IN
    /\ user_whitelist' = removed.set
    /\ probe' = [pc |-> IF follows THEN "added_removed" ELSE "removed",
                 id |-> identifier,
                 before |-> IF follows THEN probe.before ELSE user_whitelist,
                 ok |-> removed.ok]
    /\ UNCHANGED <<config, sessions, now, res, denied, exchanged, bootstrapped, late, inflight, admin_whitelist>>

CallAddAdmin ==
  \E identifier \in Identifiers, fail \in SUBSET {"sAdd_admin"} :
    LET added == addAdmin(identifier, fail) IN
    /\ admin_whitelist' = added.set
    /\ probe' = [pc |-> "admin_added", id |-> identifier, before |-> user_whitelist,
                 ok |-> added.ok]
    /\ UNCHANGED <<config, sessions, now, res, denied, exchanged, bootstrapped, late, inflight, user_whitelist>>

\* A membership query: probe.ok keeps the answer.
CallIsUserWhitelisted ==
  \E identifier \in Identifiers, fail \in SUBSET {"sIsMember_user"} :
    /\ probe' = [pc |-> "checked", id |-> identifier, before |-> user_whitelist,
                 ok |-> isUserWhitelisted(identifier, fail)]
    /\ UNCHANGED <<config, sessions, now, res, denied, exchanged, bootstrapped, late, inflight, registry>>

NextRegistry ==
  \/ CallIsUserWhitelisted
  \/ CallAddToWhitelist
  \/ CallRemoveFromWhitelist
  \/ CallAddAdmin

SpecRegistry == InitRegistry /\ [][NextRegistry]_vars

\* The brokerage login alone, with a brokerage that accepts each request
\* artifact at most once and answers a replay with 409: exchanged keeps the
\* artifacts it accepted, the session tokens whose records were created for
\* each artifact, and whether the last exchange was a replay.
InitBroker ==
  /\ ENABLE_WHITELIST = TRUE
  /\ SUPER_ADMIN_MODE = FALSE
  /\ INITIAL_ADMIN_SETUP_KEY = "k1"
  /\ KITE_CONFIGURED \in BOOLEAN
  /\ GOOGLE_CONFIGURED = TRUE
  /\ admin_whitelist = {<<"a">>}
  /\ user_whitelist = {<<"a">>}
  /\ session = [t \in Tokens |-> Null]
  /\ google_session = [t \in Tokens |-> Null]
  /\ now = 0
  /\ minted = 0
  /\ res = Plain("start", 0)
  /\ denied = {}
  /\ probe = Idle
  /\ exchanged = NoExchange
  /\ bootstrapped = {}
  /\ late = {}
  /\ inflight = {}

\* The callback with request artifact r.  The brokerage is reached only when
\* the app key and secret are set.
BrokerExchangeReq(r, outcome, userId, fail) ==
  /\ r \in exchanged.accepted => outcome = "409"
  /\ ZerodhaCallbackHandler(TRUE, outcome, userId, fail)
  /\ exchanged' =
       [accepted |-> IF KITE_CONFIGURED /\ outcome = "ok"
                     THEN exchanged.accepted \cup {r} ELSE exchanged.accepted,
        created |-> [a \in Artifacts |->
                       IF a = r /\ session' # session
                       THEN exchanged.created[a] \cup {minted + 1}
                       ELSE exchanged.created[a]],
        replay |-> r \in exchanged.accepted]
  /\ UNCHANGED <<denied, probe, bootstrapped, late, inflight>>

BrokerExchange ==
  \E r \in Artifacts, outcome \in BrokerOutcomes, userId \in BrokerUserIds,
     fail \in SUBSET {"setEx"} :
    BrokerExchangeReq(r, outcome, userId, fail)

NextBroker ==
  \/ BrokerExchange
  \/ ZerodhaCallbackReq(FALSE, "ok", <<"A">>, {})
  \/ Logout
  \/ Holdings

SpecBroker == InitBroker /\ [][NextBroker]_vars

\* ------------------------------------------------- interleaved requests
\* Node runs one handler until its next await and may then run another
\* request: a request is in flight between the await that ends its check
\* and the statements after it.  For a holdings request that is the return
\* of checkWhitelistMiddleware (next()), for bootstrap the return of sCard.
Inflight(op, tok, user, id) == [op |-> op, tok |-> tok, user |-> user, id |-> id]

InitInterleaved ==
  /\ ENABLE_WHITELIST = TRUE
  /\ SUPER_ADMIN_MODE = FALSE
  /\ INITIAL_ADMIN_SETUP_KEY = "k1"
  /\ KITE_CONFIGURED = TRUE
  /\ GOOGLE_CONFIGURED = TRUE
  /\ admin_whitelist = {}
  /\ user_whitelist = {}
  /\ session = [t \in Tokens |-> Null]
  /\ google_session = [t \in Tokens |-> Null]
  /\ now = 0
  /\ minted = 0
  /\ res = Plain("start", 0)
  /\ denied = {}
  /\ probe = Idle
  /\ exchanged = NoExchange
  /\ bootstrapped = {}
  /\ late = {}
  /\ inflight = {}

\* checkWhitelistMiddleware runs for a holdings request: it answers, or it
\* calls next and the request waits for the handler's first statement.
HoldingsCheckReq(tok, mwFail) ==
  LET v == checkWhitelistMiddleware(tok, mwFail) IN
  IF v.mw = "next" THEN
    /\ Cardinality(inflight) < MaxInflight
    /\ inflight' = inflight \cup {Inflight("holdings", tok, v.user, NoString)}
    /\ google_session' = AfterMiddleware(tok, v)
    /\ UNCHANGED <<config, history, registry, session, now, minted, res>>
  ELSE HoldingsReq(tok, "ok", mwFail, {})

HoldingsCheck ==
  \E tok \in RequestTokens, mwFail \in SUBSET {"get", "sIsMember_user"} :
    HoldingsCheckReq(tok, mwFail)

\* A variant that asks the whitelist again before it answers.
HoldingsFinishResult_Recheck(q, outcome, hFail) ==
  IF ~isUserWhitelisted(q.user.identifier, {})
  THEN Response("holdings", 403, NoToken, q.user)
  ELSE Called(Response("holdings", HoldingsHandler(q.tok, outcome, hFail),
                       NoToken, q.user),
              HoldingsCalls(q.tok, hFail))

\* The handler of a holdings request the middleware forwarded: its answer.
HoldingsFinishResult(q, outcome, hFail) ==
  Called(Response("holdings", HoldingsHandler(q.tok, outcome, hFail),
                  NoToken, q.user),
         HoldingsCalls(q.tok, hFail))

HoldingsFinishReq(q, outcome, hFail) ==
  /\ q \in inflight /\ q.op = "holdings"
  /\ inflight' = inflight \ {q}
  /\ res' = HoldingsFinishResult(q, outcome, hFail)
  /\ late' = IF isUserWhitelisted(q.user.identifier, {}) THEN late
             ELSE late \cup {q.tok}
  /\ UNCHANGED <<config, denied, probe, exchanged, bootstrapped, registry,
                 sessions, now>>

HoldingsFinish ==
  \E q \in inflight, outcome \in HoldingsOutcomes, hFail \in SUBSET {"get"} :
    HoldingsFinishReq(q, outcome, hFail)

\* Bootstrap up to the return of sCard: the status it answers with, 0 when
\* it goes on to the two writes.
SetupCheckStatus(setup_key, admin_identifier, fail) ==
  IF INITIAL_ADMIN_SETUP_KEY = NoKey \/ setup_key # INITIAL_ADMIN_SETUP_KEY THEN 403
  ELSE IF admin_identifier = NoString THEN 400
  ELSE IF "sCard" \in fail THEN 500
  ELSE IF Cardinality(admin_whitelist) > 0 THEN 409
  ELSE 0

SetupCheckReq(setup_key, admin_identifier, fail) ==
  LET status == SetupCheckStatus(setup_key, admin_identifier, fail) IN
  IF status = 0 THEN
    /\ Cardinality(inflight) < MaxInflight
    /\ inflight' = inflight \cup {Inflight("setup", NoToken, NoUser, admin_identifier)}
    /\ UNCHANGED <<config, history, registry, sessions, now, res>>
  ELSE
    /\ res' = Plain("setup", status)
    /\ UNCHANGED <<config, history, inflight, registry, sessions, now>>

SetupCheck ==
  \E setup_key \in SetupKeys, admin_identifier \in Identifiers,
     fail \in SUBSET {"sCard"} :
    SetupCheckReq(setup_key, admin_identifier, fail)

\* A variant that reads the admin count again before it writes.
SetupWriteResult_Recheck(admin_identifier, fail) ==
  IF Cardinality(admin_whitelist) > 0
    THEN Outcome(409, admin_whitelist, user_whitelist)
  ELSE LET adminAdded == addAdmin(admin_identifier, fail)
           whitelistAdded == addToWhitelist(admin_identifier, fail) IN
    Outcome(IF adminAdded.ok /\ whitelistAdded.ok THEN 200 ELSE 500,
            adminAdded.set, whitelistAdded.set)

\* Bootstrap after the return of sCard: the two writes and the answer.
SetupWriteResult(admin_identifier, fail) ==
  LET adminAdded == addAdmin(admin_identifier, fail)
      whitelistAdded == addToWhitelist(admin_identifier, fail) IN
  Outcome(IF adminAdded.ok /\ whitelistAdded.ok THEN 200 ELSE 500,
          adminAdded.set, whitelistAdded.set)

SetupWriteReq(q, fail) ==
  LET o == SetupWriteResult(q.id, fail) IN
  /\ q \in inflight /\ q.op = "setup"
  /\ inflight' = inflight \ {q}
  /\ admin_whitelist' = o.admins
  /\ user_whitelist' = o.users
  /\ res' = Plain("setup", o.status)
  /\ bootstrapped' = IF o.status = 200 THEN bootstrapped \cup {q.id} ELSE bootstrapped
  /\ UNCHANGED <<config, denied, probe, exchanged, late, sessions, now>>

SetupWrite ==
  \E q \in inflight, fail \in SUBSET {"sAdd_admin", "sAdd_user"} :
    SetupWriteReq(q, fail)

\* Holdings requests interleaved with brokerage logins and with changes of
\* the whitelist.
NextInterleaved ==
  \/ ZerodhaCallback /\ minted' <= MaxTokens
  \/ HoldingsCheck
  \/ HoldingsFinish
  \/ CallAddToWhitelist
  \/ CallRemoveFromWhitelist

SpecInterleaved == InitInterleaved /\ [][NextInterleaved]_vars

\* Bootstrap requests interleaved with one another.
NextBootstrap ==
  \/ SetupCheck
  \/ SetupWrite

SpecBootstrap == InitInterleaved /\ [][NextBootstrap]_vars

\* ------------------------------------------------------- upstream calls
\* A token exchange waits at each of its upstream calls until the provider
\* answers or the call's timeout fires.  An in-flight record with op
\* "zerodha_callback" waits at the brokerage's token endpoint, "google_token"
\* at the identity provider's code exchange, "google_userinfo" at its
\* userinfo endpoint.  A provider need not answer.
Waiting(op) == Inflight(op, NoToken, NoUser, NoString)

\* The timeout option of the axios call a request waits at, in milliseconds;
\* 0 (the library's default) is no timeout.
AxiosTimeout(op) ==
  CASE op = "google_token" -> 10000
    [] op = "google_userinfo" -> 10000
    [] OTHER -> 0

\* The callback up to its axios.post.
ZerodhaStart ==
  \E hasRequestToken \in BOOLEAN :
    IF ~hasRequestToken \/ ~KITE_CONFIGURED
    THEN ZerodhaCallbackReq(hasRequestToken, "ok", <<"A">>, {})
    ELSE /\ Waiting("zerodha_callback") \notin inflight
         /\ inflight' = inflight \cup {Waiting("zerodha_callback")}
         /\ UNCHANGED <<config, history, registry, sessions, now, res>>

\* The brokerage answers and the callback runs to its end.
ZerodhaAnswered ==
  \E outcome \in BrokerOutcomes, userId \in BrokerUserIds,
     fail \in SUBSET {"setEx"} :
    /\ Waiting("zerodha_callback") \in inflight
    /\ inflight' = inflight \ {Waiting("zerodha_callback")}
    /\ ZerodhaCallbackHandler(TRUE, outcome, userId, fail)
    /\ UNCHANGED history

\* The identity exchange up to its first axios call.
GoogleStart ==
  \E code \in BOOLEAN, redirect_uri \in BOOLEAN :
    IF ~code \/ ~redirect_uri \/ ~GOOGLE_CONFIGURED
    THEN GoogleTokenReq(code, redirect_uri, "ok", "ok",
                        GoogleAnswer(TRUE, NoString, <<"b">>, 3599), {})
    ELSE /\ Waiting("google_token") \notin inflight
         /\ Waiting("google_userinfo") \notin inflight
         /\ inflight' = inflight \cup {Waiting("google_token")}
         /\ UNCHANGED <<config, history, registry, sessions, now, res>>

\* The code exchange ends with tokenCall: the handler answers, or goes on to
\* the userinfo call.
GoogleTokenEnds(tokenCall, hasAccessToken) ==
  /\ Waiting("google_token") \in inflight
  /\ IF tokenCall = "ok" /\ hasAccessToken THEN
       /\ inflight' = (inflight \ {Waiting("google_token")})
                         \cup {Waiting("google_userinfo")}
       /\ UNCHANGED <<config, history, registry, sessions, now, res>>
     ELSE
       /\ inflight' = inflight \ {Waiting("google_token")}
       /\ GoogleTokenHandler(TRUE, TRUE, tokenCall, "ok",
                             GoogleAnswer(hasAccessToken, NoString, <<"b">>, 3599), {})
       /\ UNCHANGED history

\* The userinfo call ends with userCall and the handler runs to its end.
GoogleUserinfoEnds(userCall, answer, fail) ==
  /\ Waiting("google_userinfo") \in inflight
  /\ inflight' = inflight \ {Waiting("google_userinfo")}
  /\ GoogleTokenHandler(TRUE, TRUE, "ok", userCall, answer, fail)
  /\ UNCHANGED history

\* The identity provider answers.
GoogleAnswered ==
  \/ \E tokenCall \in GoogleOutcomes \ {"ECONNABORTED"}, hasAccessToken \in BOOLEAN :
       GoogleTokenEnds(tokenCall, hasAccessToken)
  \/ \E userCall \in GoogleOutcomes \ {"ECONNABORTED"}, answer \in GoogleAnswers,
        fail \in SUBSET {"sIsMember_user", "setEx"} :
       GoogleUserinfoEnds(userCall, answer, fail)

\* The timeout of an axios call fires: the call throws ECONNABORTED.
UpstreamTimeout ==
  \E q \in inflight :
    /\ AxiosTimeout(q.op) > 0
    /\ IF q.op = "google_token" THEN GoogleTokenEnds("ECONNABORTED", TRUE)
       ELSE GoogleUserinfoEnds("ECONNABORTED",
                               GoogleAnswer(TRUE, NoString, <<"b">>, 3599), {})

InitUpstream ==
  /\ ENABLE_WHITELIST = TRUE
  /\ SUPER_ADMIN_MODE = FALSE
  /\ INITIAL_ADMIN_SETUP_KEY = "k1"
  /\ KITE_CONFIGURED \in BOOLEAN
  /\ GOOGLE_CONFIGURED \in BOOLEAN
  /\ admin_whitelist = {<<"a">>}
  /\ user_whitelist = {<<"a">>}
  /\ session = [t \in Tokens |-> Null]
  /\ google_session = [t \in Tokens |-> Null]
  /\ now = 0
  /\ minted = 0
  /\ res = Plain("start", 0)
  /\ denied = {}
  /\ probe = Idle
  /\ exchanged = NoExchange
  /\ bootstrapped = {}
  /\ late = {}
  /\ inflight = {}

NextUpstream ==
  \/ ZerodhaStart
  \/ ZerodhaAnswered
  \/ GoogleStart
  \/ GoogleAnswered
  \/ UpstreamTimeout
  \/ Logout

\* A timer that is set fires unless its call ends first.
SpecUpstream ==
  InitUpstream /\ [][NextUpstream]_vars /\ WF_vars(UpstreamTimeout)

\* ------------------------------------------- the registry under concurrency
\* Every endpoint that writes to the registry, bootstrap split at the return
\* of its sCard, and the brokerage login that gives an admin a session.
NextAdmins ==
  \/ ZerodhaCallback /\ minted' <= MaxTokens
  \/ SetupCheck
  \/ SetupWrite
  \/ WhitelistAdd
  \/ WhitelistRemove
  \/ WhitelistBulkAdd
  \/ AddAdmin

SpecAdmins == Init /\ [][NextAdmins]_vars

\* ------------------------------------------------------ a store that works
\* Every registry endpoint and the two logins, with no store call throwing
\* and every provider call answered.
Login ==
  /\ minted < MaxTokens
  /\ \/ \E userId \in BrokerUserIds : ZerodhaCallbackReq(TRUE, "ok", userId, {})
     \/ \E answer \in GoogleAnswers :
          GoogleTokenReq(TRUE, TRUE, "ok", "ok", answer, {})

RegistryRequest ==
  \/ \E setup_key \in SetupKeys, admin_identifier \in Identifiers :
       AdminSetupReq(setup_key, admin_identifier, {})
  \/ \E tok \in RequestTokens, identifier \in Identifiers :
       \/ WhitelistAddReq(tok, identifier, {})
       \/ WhitelistRemoveReq(tok, identifier, {})
       \/ AddAdminReq(tok, identifier, {})
  \/ \E tok \in RequestTokens, identifiers \in BulkBodies :
       WhitelistBulkAddReq(tok, identifiers, {}, {})

NextReliable ==
  \/ Login
  \/ RegistryRequest

SpecReliable == Init /\ [][NextReliable]_vars

\* ------------------------------------------------- identities of sessions
\* The session endpoints, a protected endpoint and an admin endpoint at one
\* instant, on a registry that bootstrap left with one admin, and with
\* provider answers that carry no identifier at all: the brokerage's answer
\* without user_id, the identity provider's profile without email and id.
InitIdentity ==
  /\ ENABLE_WHITELIST \in BOOLEAN
  /\ SUPER_ADMIN_MODE = FALSE
  /\ INITIAL_ADMIN_SETUP_KEY = "k1"
  /\ KITE_CONFIGURED = TRUE
  /\ GOOGLE_CONFIGURED = TRUE
  /\ \E x \in {<<"a">>, <<"b">>} :
       admin_whitelist = {x} /\ user_whitelist = {x}
  /\ session = [t \in Tokens |-> Null]
  /\ google_session = [t \in Tokens |-> Null]
  /\ now = 0
  /\ minted = 0
  /\ res = Plain("start", 0)
  /\ denied = {}
  /\ probe = Idle
  /\ exchanged = NoExchange
  /\ bootstrapped = {}
  /\ late = {}
  /\ inflight = {}

\* A token exchange whose provider answer names nobody.
BareProfile ==
  \/ ZerodhaCallbackReq(TRUE, "ok", NoString, {})
  \/ GoogleTokenReq(TRUE, TRUE, "ok", "ok",
                    GoogleAnswer(TRUE, NoString, NoString, 3599), {})

NextIdentity ==
  \/ ZerodhaCallback
  \/ GoogleToken
  \/ BareProfile
  \/ Holdings
  \/ WhitelistAdd

SpecIdentity == InitIdentity /\ [][NextIdentity]_vars

\* ------------------------------------------------------------------ claims
\* The identity and provider a lookup yields, <<NoString, "none">> when it
\* finds no session.
Yields(found) ==
  IF found.outcome = "found" THEN <<found.userIdentifier, found.sessionType>>
  ELSE <<NoString, "none">>

\* The record stored under a token, in whichever namespace.
Stored(tok) ==
  IF session[tok] # Null THEN session[tok] ELSE google_session[tok]

\* The step is a successful token exchange that hands out token t.
HandsOut(t) == minted' = minted + 1 /\ res'.token = t /\ t = minted + 1

\* The step is a logout request for token t.
IsLogout(t) ==
  /\ res'.op \in {"google_logout", "logout"}
  /\ \/ \E access_token \in BOOLEAN, revoke \in RevokeOutcomes,
             fail \in SUBSET {"del"} :
          GoogleLogoutReq(t, access_token, revoke, fail)
     \/ \E broker \in {"zerodha", "google"}, fail \in SUBSET {"del"} :
          LogoutReq(t, broker, fail)

\* After the step neither the TTL of record r has elapsed nor its expires_at
\* passed.
StaysLive(r) ==
  /\ now' < r.ttl_at
  /\ r.kind = "google" => now' <= r.expires_at

\* Whatever a lookup finds for a token, it keeps finding until the TTL
\* elapses, expires_at passes or a logout names the token.
ResolveStable ==
  \A t \in Tokens :
    (Stored(t) # Null /\ StaysLive(Stored(t)) /\ ~IsLogout(t))
      => /\ Yields(ResolveSession(t, {}))' = Yields(ResolveSession(t, {}))
         /\ Yields(ResolveAdminSession(t, {}))' = Yields(ResolveAdminSession(t, {}))

\* C1 as stated: once a token exchange reports success and hands out t, the
\* middleware lookups of t yield the identity and provider the exchange
\* reported, until TTL, expires_at or logout.
C1_Original ==
  [][/\ \A t \in Tokens : HandsOut(t) =>
          /\ Yields(ResolveSession(t, {}))'
               = <<res'.user.identifier, res'.user.session_type>>
          /\ Yields(ResolveAdminSession(t, {}))'
               = <<res'.user.identifier, res'.user.session_type>>
     /\ ResolveStable]_vars

\* C1 amended: the same, for an exchange whose store write took effect (the
\* identity exchange reports success and hands out a token even when the
\* write threw, and that token resolves to nothing).
C1_ResolveReturnsCreated ==
  [][/\ \A t \in Tokens : (HandsOut(t) /\ Stored(t)' # Null) =>
          /\ Yields(ResolveSession(t, {}))'
               = <<res'.user.identifier, res'.user.session_type>>
          /\ Yields(ResolveAdminSession(t, {}))'
               = <<res'.user.identifier, res'.user.session_type>>
     /\ ResolveStable]_vars

\* Two tokens of different providers are live and the whitelist middleware
\* has just resolved one of them and attached its identity.
C1_Witness ==
  /\ session[1] # Null /\ google_session[2] # Null
  /\ res.op = "holdings" /\ res.user.session_type = "google"
  /\ res.user.identifier = GoogleIdentifier(google_session[2])

\* The session a request with token tok is entitled to at this moment: the
\* record stored under it, unless it is an IdentitySession past its
\* expires_at.
LiveRecord(tok) ==
  IF tok = NoToken THEN Null
  ELSE IF session[tok] # Null THEN session[tok]
  ELSE IF google_session[tok] # Null /\ now <= google_session[tok].expires_at
    THEN google_session[tok]
  ELSE Null

\* The identity derived from a record: the email when there is one, else the
\* provider's user id.
IdentityOf(r) ==
  IF r.kind = "zerodha" THEN r.user_id
  ELSE IF r.user_data.email # NoString THEN r.user_data.email
  ELSE r.user_data.user_id

\* C2: with the whitelist enabled, checkWhitelistMiddleware calls next only
\* for a token with a live session record whose identity, lowercased, is in
\* the whitelist set, whatever store calls fail, and then req.user carries
\* that identity and the record's provider; a request it forwarded carries a
\* whitelisted identity.
C2_RegularForwardsOnlyWhitelisted ==
  ENABLE_WHITELIST =>
    /\ \A tok \in RequestTokens, fail \in SUBSET {"get", "sIsMember_user", "del"} :
         LET v == checkWhitelistMiddleware(tok, fail)
             r == LiveRecord(tok) IN
         v.mw = "next" =>
           /\ r # Null
           /\ toLowerCase(IdentityOf(r)) \in user_whitelist
           /\ v.user.identifier = IdentityOf(r)
           /\ v.user.session_type = r.kind
    /\ (res.op = "holdings" /\ res.user.session_type # "none")
         => toLowerCase(res.user.identifier) \in user_whitelist

\* The whitelist middleware forwarded a BrokerSession request, and the
\* handler answered it.
C2_Witness ==
  /\ ENABLE_WHITELIST
  /\ res.op = "holdings" /\ res.status = 200
  /\ res.user.session_type = "zerodha"

\* The record checkAdminMiddleware reads for a token.
AdminRecord(tok) == IF tok = NoToken THEN Null ELSE Stored(tok)

AdminOps == {"whitelist_add", "whitelist_remove", "whitelist_bulk_add", "add_admin"}

\* With the bypass off, the admin middleware forwards only a token whose
\* stored session has an identity in the admin set.
AdminForwardsOnlyAdmins(tok, v) ==
  v.mw = "next" =>
    /\ AdminRecord(tok) # Null
    /\ toLowerCase(IdentityOf(AdminRecord(tok))) \in admin_whitelist
    /\ v.user.identifier = IdentityOf(AdminRecord(tok))

\* C3 as stated: with the bypass off, checkAdminMiddleware forwards only
\* admins and answers every other request with 403.
C3_Original ==
  ~SUPER_ADMIN_MODE =>
    \A tok \in RequestTokens, fail \in SUBSET {"get", "sIsMember_admin"} :
      LET v == checkAdminMiddleware(tok, fail) IN
      /\ AdminForwardsOnlyAdmins(tok, v)
      /\ v.mw # "next" => v.mw = "403"

\* C3 amended: with the bypass off, checkAdminMiddleware forwards only
\* admins, whether the whitelist is enabled or not; it answers 403 when a
\* session is found whose identity is not an admin (or whose membership read
\* throws), 401 when no token is presented or no session is found, and 500
\* when the session lookup throws.
C3_AdminForwardsOnlyAdmins ==
  ~SUPER_ADMIN_MODE =>
    /\ \A tok \in RequestTokens, fail \in SUBSET {"get", "sIsMember_admin"} :
         LET v == checkAdminMiddleware(tok, fail) IN
         /\ AdminForwardsOnlyAdmins(tok, v)
         /\ v.mw # "next" =>
              v.mw = IF tok = NoToken THEN "401"
                     ELSE IF "get" \in fail THEN "500"
                     ELSE IF AdminRecord(tok) = Null THEN "401"
                     ELSE "403"
    /\ (res.op \in AdminOps /\ res.user.is_admin)
         => toLowerCase(res.user.identifier) \in admin_whitelist

\* With the whitelist feature off and the bypass off, an admin endpoint has
\* just refused a logged-in caller who is not an admin.
C3_Witness ==
  /\ ~SUPER_ADMIN_MODE /\ ~ENABLE_WHITELIST
  /\ res.op \in AdminOps /\ res.status = 403
  /\ res.user.identifier # NoString

SetupFails == SUBSET {"sCard", "sAdd_admin", "sAdd_user"}

\* C4 as stated: once the admin set has a member, every bootstrap call,
\* whatever its key and identifier, is answered 409.
C4_Original ==
  [][(res'.op = "setup" /\ admin_whitelist # {}) =>
       \A k \in SetupKeys, id \in Identifiers, fail \in SetupFails :
         AdminSetupReq(k, id, fail) => res'.status = 409]_vars

\* C4 amended: once the admin set has a member, no bootstrap call succeeds
\* or changes either set; it is answered 409 when the key matches, an
\* identifier is given and the admin count can be read (403 for a wrong key,
\* 400 for a missing identifier, 500 when the count read throws).
C4_BootstrapOnce ==
  [][(res'.op = "setup" /\ admin_whitelist # {}) =>
       \A k \in SetupKeys, id \in Identifiers, fail \in SetupFails :
         AdminSetupReq(k, id, fail) =>
           /\ res'.status # 200
           /\ UNCHANGED registry
           /\ res'.status = IF INITIAL_ADMIN_SETUP_KEY = NoKey
                               \/ k # INITIAL_ADMIN_SETUP_KEY THEN 403
                            ELSE IF id = NoString THEN 400
                            ELSE IF "sCard" \in fail THEN 500
                            ELSE 409]_vars

\* A bootstrap call has just been refused because an admin exists.
C4_Witness == res.op = "setup" /\ res.status = 409 /\ admin_whitelist # {}

\* C5: a bootstrap call whose key differs from the configured secret, or
\* made while no secret is configured, is answered 403 and changes neither
\* set.
C5_BootstrapWrongKey ==
  [][res'.op = "setup" =>
       \A k \in SetupKeys, id \in Identifiers, fail \in SetupFails :
         (AdminSetupReq(k, id, fail)
            /\ (INITIAL_ADMIN_SETUP_KEY = NoKey \/ k # INITIAL_ADMIN_SETUP_KEY))
           => (res'.status = 403 /\ UNCHANGED registry)]_vars

\* A bootstrap call has just been refused while no secret is configured.
C5_Witness ==
  /\ INITIAL_ADMIN_SETUP_KEY = NoKey
  /\ res.op = "setup" /\ res.status = 403
  /\ admin_whitelist = {} /\ user_whitelist = {}

\* C6: whatever a bootstrap call answers, every identifier it added to the
\* admin set is in the whitelist set afterwards.
C6_BootstrapBothOrNone ==
  [][res'.op = "setup" =>
       \A k \in SetupKeys, id \in Identifiers, fail \in SetupFails :
         AdminSetupReq(k, id, fail) =>
           (admin_whitelist' \ admin_whitelist) \subseteq user_whitelist']_vars

PromoteFails == SUBSET {"get", "sIsMember_admin", "sAdd_admin", "sAdd_user"}

\* C7: when add-admin, called by a member of the admin set, answers 200 for
\* identifier n, then n is an admin and is whitelisted afterwards.
C7_PromoteAddsBoth ==
  [][(res'.op = "add_admin" /\ res'.status = 200) =>
       \A tok \in RequestTokens, n \in Identifiers, fail \in PromoteFails :
         (AddAdminReq(tok, n, fail)
            /\ toLowerCase(res'.user.identifier) \in admin_whitelist)
           => /\ toLowerCase(n) \in admin_whitelist'
              /\ toLowerCase(n) \in user_whitelist'
              /\ isUserAdmin(n, {})'
              /\ isUserWhitelisted(n, {})']_vars

\* A logged-in admin has just promoted a second identifier.
C7_Witness ==
  /\ ~SUPER_ADMIN_MODE
  /\ res.op = "add_admin" /\ res.status = 200
  /\ Cardinality(admin_whitelist) = 2
  /\ admin_whitelist \subseteq user_whitelist

\* C8: with the bypass off, the two sets change only in a bootstrap call
\* that reports success or in an admin endpoint whose middleware admitted a
\* caller in the admin set.
C8_OnlyAdminsChangeSets ==
  [][(~SUPER_ADMIN_MODE /\ registry' # registry) =>
       \/ res'.op = "setup" /\ res'.status = 200
       \/ /\ res'.op \in AdminOps
          /\ res'.user.is_admin
          /\ toLowerCase(res'.user.identifier) \in admin_whitelist]_vars

\* What the whitelist middleware answers to token t when the store works.
RegularVerdict(t) == checkWhitelistMiddleware(t, {})

\* C9: with the whitelist enabled, a token with a live session whose
\* identity is not in the whitelist is answered 403, and once a whitelist
\* add for that identity has answered 200 the same token is forwarded.
C9_AddThenAllowed ==
  [][ENABLE_WHITELIST =>
       /\ \A t \in Tokens :
            (LiveRecord(t) # Null
               /\ toLowerCase(IdentityOf(LiveRecord(t))) \notin user_whitelist)
              => RegularVerdict(t).mw = "403"
       /\ (res'.op = "whitelist_add" /\ res'.status = 200) =>
            \A tok \in RequestTokens, id \in Identifiers,
               fail \in SUBSET {"get", "sIsMember_admin", "sAdd_user"} :
              WhitelistAddReq(tok, id, fail) =>
                \A t \in Tokens :
                  (RegularVerdict(t).mw = "403"
                     /\ toLowerCase(RegularVerdict(t).user.identifier) = toLowerCase(id))
                    => RegularVerdict(t)'.mw = "next"]_vars

\* A whitelist add has just answered 200 and a token that had been answered
\* 403 is now forwarded.
C9_Witness ==
  /\ ENABLE_WHITELIST
  /\ res.op = "whitelist_add" /\ res.status = 200
  /\ \E t \in denied : RegularVerdict(t).mw = "next"

\* C10: with the whitelist enabled, addToWhitelist(id) and then
\* removeFromWhitelist(id), for an id that was not whitelisted, leave the
\* whitelist set as it was before the add, and id is not whitelisted.
C10_AddRemoveRoundTrip ==
  (ENABLE_WHITELIST /\ probe.pc = "added_removed" /\ probe.ok
     /\ toLowerCase(probe.id) \notin probe.before)
    => /\ user_whitelist = probe.before
       /\ ~isUserWhitelisted(probe.id, {})

\* The round trip has been made with an upper-case identifier on a whitelist
\* that held another member.
C10_Witness ==
  /\ ENABLE_WHITELIST /\ probe.pc = "added_removed" /\ probe.ok
  /\ probe.id = <<"A">> /\ probe.before = {<<"b">>}
  /\ user_whitelist = {<<"b">>}

\* C11: when an admin the middleware admitted calls whitelist remove with a
\* non-empty identifier and no store call fails, the answer is 200 and the
\* identifier, lowercased, is not in the whitelist set afterwards.
C11_RemoveSucceeds ==
  [][res'.op = "whitelist_remove" =>
       \A tok \in RequestTokens, id \in Identifiers \ {NoString} :
         (WhitelistRemoveReq(tok, id, {}) /\ res'.user.is_admin)
           => /\ res'.status = 200
              /\ toLowerCase(id) \notin user_whitelist']_vars

\* C12: with the whitelist feature off, isUserWhitelisted answers true for
\* every identifier, the empty one and those absent from the set included,
\* whether or not the store could be read.
C12_DisabledWhitelistsAll ==
  ~ENABLE_WHITELIST =>
    /\ \A id \in Identifiers \cup BrokerUserIds \cup GoogleEmails \cup GoogleIds,
          fail \in SUBSET {"sIsMember_user"} : isUserWhitelisted(id, fail)
    /\ probe.pc = "checked" => probe.ok

\* With the feature off, the empty identifier has just been found whitelisted
\* while the set holds a member.
C12_Witness ==
  /\ ~ENABLE_WHITELIST
  /\ probe.pc = "checked" /\ probe.id = NoString /\ probe.ok
  /\ user_whitelist = {<<"b">>}

\* The store calls of the whitelist middleware that may throw.
RegularFails == SUBSET {"get", "sIsMember_user", "del"}

\* C13: with the whitelist feature off, checkWhitelistMiddleware calls next
\* for every token (none, unknown, expired), whatever store call would throw,
\* deletes nothing and attaches no identity; a holdings request leaves every
\* session record as it was and is answered by the handler.
C13_DisabledForwardsAll ==
  [][~ENABLE_WHITELIST =>
       /\ \A tok \in RequestTokens, fail \in RegularFails :
            checkWhitelistMiddleware(tok, fail) = Verdict("next", NoUser, FALSE)
       /\ res'.op = "holdings" =>
            \A tok \in RequestTokens, outcome \in HoldingsOutcomes,
               mwFail \in RegularFails, hFail \in SUBSET {"get"} :
              HoldingsReq(tok, outcome, mwFail, hFail) =>
                /\ UNCHANGED <<session, google_session>>
                /\ res'.user = NoUser
                /\ res'.status = HoldingsHandler(tok, outcome, hFail)]_vars

\* With the feature off, a holdings request has been forwarded to the handler
\* while an IdentitySession past its expires_at is still stored.
C13_Witness ==
  /\ ~ENABLE_WHITELIST
  /\ res.op = "holdings" /\ res.user = NoUser /\ res.status = 401
  /\ \E t \in Tokens : google_session[t] # Null /\ GoogleExpired(google_session[t])

\* C14: with the whitelist enabled and the bypass off, neither middleware
\* calls next when the session read or the membership read throws, nor when
\* the delete of an expired record throws; isUserWhitelisted and isUserAdmin
\* answer false when their read throws.
C14_FailClosed ==
  (ENABLE_WHITELIST /\ ~SUPER_ADMIN_MODE) =>
    /\ \A tok \in RequestTokens, fail \in RegularFails :
         (fail \cap {"get", "sIsMember_user"} # {}
            \/ ("del" \in fail /\ tok # NoToken /\ session[tok] = Null
                  /\ google_session[tok] # Null /\ GoogleExpired(google_session[tok])))
           => checkWhitelistMiddleware(tok, fail).mw # "next"
    /\ \A tok \in RequestTokens, fail \in SUBSET {"get", "sIsMember_admin"} :
         fail # {} => checkAdminMiddleware(tok, fail).mw # "next"
    /\ \A id \in Identifiers \cup BrokerUserIds \cup GoogleEmails \cup GoogleIds :
         /\ ~isUserWhitelisted(id, {"sIsMember_user"})
         /\ ~isUserAdmin(id, {"sIsMember_admin"})

\* The whitelist middleware has just refused a caller whose identity is in
\* the whitelist set (the membership read threw), while an expired
\* IdentitySession is stored.
C14_Witness ==
  /\ ENABLE_WHITELIST /\ ~SUPER_ADMIN_MODE
  /\ res.op = "holdings" /\ res.status = 403
  /\ res.user.identifier # NoString
  /\ toLowerCase(res.user.identifier) \in user_whitelist
  /\ \E t \in Tokens : google_session[t] # Null /\ GoogleExpired(google_session[t])

\* Token t names an IdentitySession whose expires_at is earlier than now.
ExpiredIdentity(t) ==
  session[t] = Null /\ google_session[t] # Null /\ GoogleExpired(google_session[t])

\* C15: a token of an IdentitySession past its expires_at resolves to no
\* session in either middleware, and a request that presented it to the
\* whitelist middleware is answered 401 and leaves no record under the token.
C15_ExpiredResolvesToNotFound ==
  [][\A t \in Tokens : ExpiredIdentity(t) =>
       /\ Yields(ResolveSession(t, {})) = <<NoString, "none">>
       /\ Yields(ResolveAdminSession(t, {})) = <<NoString, "none">>
       /\ (ENABLE_WHITELIST /\ res'.op = "holdings") =>
            \A outcome \in HoldingsOutcomes, hFail \in SUBSET {"get"} :
              HoldingsReq(t, outcome, {}, hFail) =>
                (res'.status = 401 /\ Stored(t)' = Null)]_vars

\* C16: with the whitelist enabled and the bypass off, the admin middleware
\* resolves every token as the whitelist middleware does: the same identity
\* or both 401, and the same deletion of an expired IdentitySession.
C16_AdminResolvesAsRegular ==
  (ENABLE_WHITELIST /\ ~SUPER_ADMIN_MODE) =>
    \A tok \in RequestTokens :
      LET r == checkWhitelistMiddleware(tok, {})
          a == checkAdminMiddleware(tok, {}) IN
      /\ (tok # NoToken) =>
           Yields(ResolveAdminSession(tok, {}))[1] = Yields(ResolveSession(tok, {}))[1]
      /\ (a.mw = "401") <=> (r.mw = "401")
      /\ a.del = r.del

\* C17: with the whitelist enabled and the session store readable, a request
\* without a token and a request whose token has no live session record are
\* both answered 401 by the whitelist middleware and never reach the handler.
C17_MissingAndUnknownAlike ==
  [][ENABLE_WHITELIST =>
       /\ \A tok \in RequestTokens, fail \in SUBSET {"sIsMember_user"} :
            LiveRecord(tok) = Null =>
              checkWhitelistMiddleware(tok, fail).mw = "401"
       /\ res'.op = "holdings" =>
            \A tok \in RequestTokens, outcome \in HoldingsOutcomes,
               mwFail \in SUBSET {"sIsMember_user"}, hFail \in SUBSET {"get"} :
              (LiveRecord(tok) = Null /\ HoldingsReq(tok, outcome, mwFail, hFail))
                => (res'.status = 401 /\ res'.user = NoUser)]_vars

\* The whitelist middleware has just answered 401 while one token has a live
\* session and another, minted earlier, has no record any more.
C17_Witness ==
  /\ ENABLE_WHITELIST
  /\ res.op = "holdings" /\ res.status = 401 /\ res.user = NoUser
  /\ \E t \in Tokens : LiveRecord(t) # Null
  /\ \E t \in Tokens : Stored(t) = Null /\ t <= minted

\* C18: with the bypass on, checkAdminMiddleware calls next for every
\* request, with or without a token, whatever store call would throw, with
\* req.user = {identifier: 'super_admin', is_admin: true}; every admin
\* endpoint is answered by its handler on behalf of that identity.
C18_BypassForwardsAll ==
  SUPER_ADMIN_MODE =>
    /\ \A tok \in RequestTokens, fail \in AdminFails :
         checkAdminMiddleware(tok, fail) = Verdict("next", SuperAdmin, FALSE)
    /\ res.op \in AdminOps =>
         (res.user = SuperAdmin /\ res.status \in {200, 400, 500})

\* With the bypass on, a whitelist add has succeeded although no session was
\* ever created and the admin set is empty.
C18_Witness ==
  /\ SUPER_ADMIN_MODE
  /\ res.op = "whitelist_add" /\ res.status = 200 /\ res.user = SuperAdmin
  /\ minted = 0 /\ admin_whitelist = {}
  /\ user_whitelist # {}

\* C19: with a brokerage that accepts each request artifact at most once, at
\* most one session record is ever created per artifact, and a second
\* exchange of an artifact the brokerage has accepted is answered 409,
\* creates no session record and hands out no session token.
C19_ArtifactSingleUse ==
  [][/\ \A r \in Artifacts : Cardinality(exchanged'.created[r]) <= 1
     /\ res'.op = "zerodha_callback" =>
          \A r \in exchanged.accepted, outcome \in BrokerOutcomes,
             userId \in BrokerUserIds, fail \in SUBSET {"setEx"} :
            BrokerExchangeReq(r, outcome, userId, fail) =>
              /\ res'.status = 409
              /\ res'.token = NoToken
              /\ UNCHANGED <<session, google_session>>
              /\ exchanged'.created = exchanged.created]_vars

\* An artifact whose exchange created a session has just been presented
\* again and refused; the session of the first exchange is still there.
C19_Witness ==
  /\ exchanged.replay
  /\ res.op = "zerodha_callback" /\ res.status = 409
  /\ \E r \in exchanged.accepted :
       \E t \in exchanged.created[r] : session[t] # Null

\* C20: an exchange that carries a request artifact and fails is answered by
\* cause: 500 when the app key or secret is unset, whatever the brokerage
\* would answer; 409 and 403 when the brokerage answers so; 500 for any
\* other failure, a failing store write included; no failure writes a
\* session record or hands out a token.
C20_ExchangeErrorsByCause ==
  [][res'.op = "zerodha_callback" =>
       \A r \in Artifacts, outcome \in BrokerOutcomes,
          userId \in BrokerUserIds, fail \in SUBSET {"setEx"} :
         BrokerExchangeReq(r, outcome, userId, fail) =>
           IF ~KITE_CONFIGURED \/ outcome # "ok" \/ "setEx" \in fail
           THEN /\ res'.status = IF ~KITE_CONFIGURED THEN 500
                                 ELSE IF outcome = "409" THEN 409
                                 ELSE IF outcome = "403" THEN 403
                                 ELSE 500
                /\ res'.token = NoToken
                /\ UNCHANGED <<session, google_session>>
           ELSE res'.status = 302 /\ session'[res'.token] # Null]_vars

\* With the key and secret set, the brokerage has just refused an exchange
\* with 403 after an earlier exchange succeeded: one session record, no more.
C20_Witness ==
  /\ KITE_CONFIGURED
  /\ res.op = "zerodha_callback" /\ res.status = 403
  /\ session[1] # Null /\ session[2] = Null

\* C21: when the store write of a brokerage exchange throws, the callback
\* answers 500, hands out no session token and stores nothing; every token
\* a callback hands out has a record in the store at that moment.
C21_BrokerStoreFailureFailsHard ==
  [][res'.op = "zerodha_callback" =>
       /\ res'.token # NoToken => session'[res'.token] # Null
       /\ \A r \in Artifacts, outcome \in BrokerOutcomes, userId \in BrokerUserIds :
            BrokerExchangeReq(r, outcome, userId, {"setEx"}) =>
              /\ res'.status >= 400
              /\ res'.token = NoToken
              /\ UNCHANGED <<session, google_session>>
              /\ (KITE_CONFIGURED /\ outcome = "ok") => res'.status = 500]_vars

\* The brokerage accepted an artifact and a token was generated, but the
\* write threw: the callback answered 500 and no record was ever created.
C21_Witness ==
  /\ KITE_CONFIGURED
  /\ res.op = "zerodha_callback" /\ res.status = 500
  /\ res.upstream = <<"kite_token">> /\ res.token = NoToken
  /\ minted = 1 /\ exchanged.accepted # {}
  /\ \A a \in Artifacts : exchanged.created[a] = {}

\* The record a logout of token t with the given provider is to delete.
Namespace(broker, t) == IF broker = "google" THEN google_session[t] ELSE session[t]

\* A logout of token t through the generic endpoint, the store working,
\* reports whether a record existed and leaves none.
GenericLogoutReportsExistence(t) ==
  \A broker \in {"zerodha", "google"} :
    LogoutReq(t, broker, {}) =>
      /\ res'.cleared = (Namespace(broker, t) # Null)
      /\ Namespace(broker, t)' = Null

\* The same of the identity provider's logout endpoint.
GoogleLogoutReportsExistence(t) ==
  \A access_token \in BOOLEAN, revoke \in RevokeOutcomes :
    GoogleLogoutReq(t, access_token, revoke, {}) =>
      /\ res'.cleared = (google_session[t] # Null)
      /\ google_session'[t] = Null

\* C22: a logout whose store call works reports session_cleared exactly
\* when a record existed under the token (true for the first logout of a
\* live token, false for a repeated one), and leaves no record under it,
\* through either logout endpoint, for every token that was generated.
C22_DeleteReportsExistence ==
  [][res'.op \in {"google_logout", "logout"} =>
       \A t \in 1..minted :
         GenericLogoutReportsExistence(t) /\ GoogleLogoutReportsExistence(t)]_vars

\* The step leaves the records of both namespaces and what the two lookups
\* find for token t as they were.
LeavesResolvable(t) ==
  /\ UNCHANGED <<session, google_session>>
  /\ Yields(ResolveSession(t, {}))' = Yields(ResolveSession(t, {}))
  /\ Yields(ResolveAdminSession(t, {}))' = Yields(ResolveAdminSession(t, {}))

\* C23: every logout, through either endpoint, is answered 200, also when
\* the delete throws or the revocation call fails or times out; when the
\* delete throws, the records stay as they were and the token resolves as
\* before.
C23_LogoutAlwaysSucceeds ==
  [][res'.op \in {"google_logout", "logout"} =>
       /\ res'.status = 200
       /\ res'.op = "google_logout" =>
            \A t \in Tokens :
              GoogleLogoutReq(t, res'.upstream # << >>, "ok", {"del"})
                => LeavesResolvable(t)
       /\ (res'.op = "logout" /\ res'.message # "Logout successful") =>
            \A t \in Tokens, broker \in {"zerodha", "google"} :
              LogoutReq(t, broker, {"del"}) => LeavesResolvable(t)]_vars

\* A logout whose delete threw has just been answered 200 while every
\* token still has its record and resolves.
C23_Witness ==
  /\ res.op = "logout" /\ res.status = 200
  /\ res.message = "Logout completed (session cleanup failed)"
  /\ \A t \in Tokens : LiveRecord(t) # Null

\* Token t names a BrokerSession whose identity, lowercased, is id lowercased.
SessionOf(t, id) ==
  session[t] # Null /\ toLowerCase(session[t].user_id) = toLowerCase(id)

\* The step is a direct removeFromWhitelist that returned true.
RemoveCompletes ==
  /\ probe' # probe
  /\ probe'.pc \in {"removed", "added_removed"}
  /\ probe'.ok

\* C24: with the whitelist enabled, once removeFromWhitelist(id) has
\* returned true the middleware answers 403 to every token with a session of
\* id, whose record stays where it is; a check that answers 403 deletes no
\* record; the removal leaves the requests in flight as they are, and a
\* request the middleware forwarded before is answered by the handler
\* (200 when its session is there and the brokerage answers), not with the
\* whitelist's 403.
C24_RevocationOnNextRequest ==
  [][/\ RemoveCompletes =>
          /\ \A t \in Tokens : SessionOf(t, probe'.id) =>
               /\ RegularVerdict(t)'.mw = "403"
               /\ session'[t] = session[t]
          /\ inflight' = inflight
     /\ (res'.op = "holdings" /\ inflight' = inflight /\ res'.status = 403)
          => UNCHANGED <<session, google_session>>
     /\ (res'.op = "holdings" /\ inflight' # inflight) =>
          \A q \in inflight, outcome \in HoldingsOutcomes, hFail \in SUBSET {"get"} :
            HoldingsFinishReq(q, outcome, hFail) =>
              /\ outcome # "403" => res'.status # 403
              /\ (outcome = "ok" /\ hFail = {} /\ session[q.tok] # Null)
                   => res'.status = 200]_vars

\* A request that was forwarded while its identity was whitelisted has just
\* been answered 200 after the identity was removed; the session is still
\* stored and a new check of its token is answered 403.
C24_Witness ==
  /\ res.op = "holdings" /\ res.status = 200 /\ late # {}
  /\ probe.pc \in {"removed", "added_removed"} /\ probe.ok
  /\ toLowerCase(probe.id) = toLowerCase(res.user.identifier)
  /\ \E t \in Tokens :
       SessionOf(t, res.user.identifier) /\ RegularVerdict(t).mw = "403"

\* C25: a bootstrap request that found the admin set empty and then runs
\* its two writes without a store failure answers 200 and adds its
\* identifier to both sets, whatever the admin set holds by then; two
\* requests that both passed the check both succeed.
C25_BootstrapRace ==
  [][res'.op = "setup" =>
       \A q \in inflight :
         SetupWriteReq(q, {}) =>
           /\ res'.status = 200
           /\ toLowerCase(q.id) \in admin_whitelist'
           /\ toLowerCase(q.id) \in user_whitelist'
           /\ admin_whitelist \subseteq admin_whitelist']_vars

\* Two bootstrap requests with different identifiers have both reported
\* success, and the admin set has two members.
C25_Witness ==
  /\ res.op = "setup" /\ res.status = 200
  /\ Cardinality(bootstrapped) = 2
  /\ Cardinality(admin_whitelist) = 2
  /\ inflight = {}

\* An exchange through the brokerage, or through the identity provider, is
\* waiting at an upstream call.
BrokerExchangePending == Waiting("zerodha_callback") \in inflight
IdentityExchangePending ==
  Waiting("google_token") \in inflight \/ Waiting("google_userinfo") \in inflight

\* C26: every token exchange that has reached an upstream call is
\* eventually answered, whether or not the provider ever answers.
C26_ExchangesAnswered ==
  /\ BrokerExchangePending ~> ~BrokerExchangePending
  /\ IdentityExchangePending ~> ~IdentityExchangePending

\* C27: a holdings request without a session token is answered 401 and the
\* brokerage is not called, with the whitelist enabled or disabled, whatever
\* store call would throw.
C27_NoTokenUnauthenticated ==
  [][res'.op = "holdings" =>
       \A outcome \in HoldingsOutcomes, mwFail \in RegularFails,
          hFail \in SUBSET {"get"} :
         HoldingsReq(NoToken, outcome, mwFail, hFail) =>
           (res'.status = 401 /\ res'.upstream = << >>)]_vars

\* Identifiers in both cases.
Cased == {<<"A">>, <<"a">>, <<"B">>, <<"b">>}

\* The identifiers that differ from id in letter case at most.
SameFold(id) == {y \in Cased : toLowerCase(y) = toLowerCase(id)}

\* C28: both sets hold lowercased identifiers only; identifiers that differ
\* only in letter case get the same answer from isUserWhitelisted and from
\* isUserAdmin; after addToWhitelist(id) returned true every case variant of
\* id is whitelisted, after removeFromWhitelist(id) returned true none is,
\* and after addAdmin(id) returned true every case variant is an admin
\* (bootstrap and add-admin write through addAdmin and addToWhitelist).
C28_CaseInsensitiveMembership ==
  /\ \A m \in user_whitelist \cup admin_whitelist : toLowerCase(m) = m
  /\ \A x \in Cased : \A y \in SameFold(x) :
       /\ isUserWhitelisted(x, {}) = isUserWhitelisted(y, {})
       /\ isUserAdmin(x, {}) = isUserAdmin(y, {})
  /\ (probe.pc = "added" /\ probe.ok) =>
       \A y \in SameFold(probe.id) :
         toLowerCase(y) \in user_whitelist /\ isUserWhitelisted(y, {})
  /\ (probe.pc \in {"removed", "added_removed"} /\ probe.ok) =>
       \A y \in SameFold(probe.id) :
         toLowerCase(y) \notin user_whitelist
           /\ (ENABLE_WHITELIST => ~isUserWhitelisted(y, {}))
  /\ (probe.pc = "admin_added" /\ probe.ok) =>
       \A y \in SameFold(probe.id) : isUserAdmin(y, {})

\* "A" was added to the whitelist and to the admins, and the whitelist entry
\* has just been removed again under the name "A": the sets held "a".
C28_Witness ==
  /\ ENABLE_WHITELIST
  /\ probe.pc = "removed" /\ probe.ok /\ probe.id = <<"A">>
  /\ probe.before = {<<"a">>, <<"b">>}
  /\ user_whitelist = {<<"b">>}
  /\ admin_whitelist = {<<"a">>}
  /\ ~isUserWhitelisted(<<"a">>, {}) /\ isUserAdmin(<<"A">>, {})

\* The identity exchange creates no session and returns no token.
NoIdentitySession ==
  /\ res'.token = NoToken
  /\ google_session' = google_session
  /\ minted' = minted

\* C29: the identity exchange answers 400 for a missing code or redirect URI
\* and 500 for a missing client id or secret without calling upstream; it
\* calls the code exchange before userinfo, and userinfo only after a code
\* exchange that succeeded; when either call fails there is no new session
\* record and no token in the answer.
C29_IdentityExchangeOrder ==
  [][res'.op = "google_token" =>
       /\ res'.upstream \in {<< >>, <<"google_token">>,
                              <<"google_token", "google_userinfo">>}
       /\ res'.token # NoToken =>
            res'.upstream = <<"google_token", "google_userinfo">>
       /\ res'.token = NoToken =>
            LET any == GoogleAnswer(TRUE, NoString, <<"b">>, 3599)
                none == GoogleAnswer(FALSE, NoString, <<"b">>, 3599) IN
            /\ \A code \in BOOLEAN, redirect_uri \in BOOLEAN :
                 (/\ ~(code /\ redirect_uri)
                  /\ GoogleTokenReq(code, redirect_uri, "ok", "ok", any, {}))
                   => /\ res'.status = 400 /\ res'.upstream = << >>
                      /\ NoIdentitySession
            /\ ~GOOGLE_CONFIGURED =>
                 \A tokenCall \in GoogleOutcomes :
                   GoogleTokenReq(TRUE, TRUE, tokenCall, "ok", any, {})
                     => /\ res'.status = 500 /\ res'.upstream = << >>
                        /\ NoIdentitySession
            /\ GOOGLE_CONFIGURED =>
                 /\ \A tokenCall \in GoogleOutcomes \ {"ok"},
                       userCall \in {"ok", "500"}, answer \in {any, none} :
                      GoogleTokenReq(TRUE, TRUE, tokenCall, userCall, answer, {})
                        => /\ res'.upstream = <<"google_token">>
                           /\ NoIdentitySession
                 /\ \A userCall \in GoogleOutcomes :
                      GoogleTokenReq(TRUE, TRUE, "ok", userCall, none, {})
                        => /\ res'.upstream = <<"google_token">>
                           /\ NoIdentitySession
                 /\ \A userCall \in GoogleOutcomes \ {"ok"} :
                      GoogleTokenReq(TRUE, TRUE, "ok", userCall, any, {})
                        => /\ res'.upstream = <<"google_token", "google_userinfo">>
                           /\ NoIdentitySession]_vars

\* The userinfo call timed out after a code exchange that succeeded: 408, no
\* token, and the sessions minted so far are all there are.
C29_Witness ==
  /\ GOOGLE_CONFIGURED
  /\ res.op = "google_token" /\ res.status = 408
  /\ res.upstream = <<"google_token", "google_userinfo">>
  /\ res.token = NoToken
  /\ minted > 0
  /\ \A t \in Tokens : t > minted => google_session[t] = Null

\* Both session lookups resolve token t to an identity.
ResolvesEverywhere(t) ==
  /\ ResolveSession(t, {}).outcome = "found"
  /\ ResolveAdminSession(t, {}).outcome = "found"

\* Neither session lookup resolves token t.
ResolvesNowhere(t) ==
  /\ Yields(ResolveSession(t, {})) = <<NoString, "none">>
  /\ Yields(ResolveAdminSession(t, {})) = <<NoString, "none">>

\* C30: a BrokerSession record is in the store, and its token resolves,
\* exactly until its store TTL (creation + 6 h) is reached; an IdentitySession
\* record is in the store until its store TTL (creation + 1 h), and its token
\* resolves until the earlier of that and its expires_at, and not after.
C30_TokensExpire ==
  \A t \in 1..minted :
    /\ session[t] # Null =>
         now < session[t].ttl_at /\ ResolvesEverywhere(t)
    /\ google_session[t] # Null =>
         /\ now < google_session[t].ttl_at
         /\ IF now > google_session[t].expires_at
              THEN ResolvesNowhere(t) ELSE ResolvesEverywhere(t)
    /\ (session[t] = Null /\ google_session[t] = Null) => ResolvesNowhere(t)

\* The 403 of the whitelist middleware for identity x: the body names x and
\* nothing else that varies.
Forbidden(x) == Verdict("403", [NoUser EXCEPT !.identifier = x], FALSE)

\* C31: with the whitelist enabled, for every token with a live session of
\* identity x, the whitelist middleware answers a request whose membership
\* read throws with the 403 for x, whether or not x is in the whitelist, and
\* that is the very answer (status, body, no upstream call, store untouched)
\* a request gets when the read works and x is not in the whitelist.
C31_ForbiddenHidesStoreFailure ==
  ENABLE_WHITELIST =>
    \A t \in Tokens :
      LiveRecord(t) # Null =>
        LET x == IdentityOf(LiveRecord(t)) IN
        /\ checkWhitelistMiddleware(t, {"sIsMember_user"}) = Forbidden(x)
        /\ \A outcome \in HoldingsOutcomes :
             LET e == HoldingsResult(t, outcome, {"sIsMember_user"}, {}) IN
             /\ e.status = 403 /\ e.user.identifier = x /\ e.upstream = << >>
             /\ toLowerCase(x) \notin user_whitelist =>
                  /\ checkWhitelistMiddleware(t, {}) = Forbidden(x)
                  /\ HoldingsResult(t, outcome, {}, {}) = e

\* A caller whose identity is whitelisted has just been refused with 403
\* (the membership read threw) while another token, whose identity is not
\* whitelisted, has been refused with 403 as well.
C31_Witness ==
  /\ ENABLE_WHITELIST
  /\ res.op = "holdings" /\ res.status = 403
  /\ toLowerCase(res.user.identifier) \in user_whitelist
  /\ \E t \in denied :
       /\ LiveRecord(t) # Null
       /\ toLowerCase(IdentityOf(LiveRecord(t))) \notin user_whitelist
  /\ \E t \in denied :
       /\ LiveRecord(t) # Null
       /\ IdentityOf(LiveRecord(t)) = res.user.identifier

\* C32: for every token with a stored, unexpired record, the whitelist
\* middleware (whitelist enabled) and the admin middleware decide on the
\* record's email when it has one and else on its provider user id, never on
\* the account id of a record that has an email; a record with neither is
\* answered 401; the identity a protected or admin request was decided on is
\* that of a stored record.
C32_IdentityEvaluated ==
  /\ \A t \in Tokens :
       (Stored(t) # Null /\ LiveRecord(t) # Null) =>
         LET x == IdentityOf(Stored(t))
             w == checkWhitelistMiddleware(t, {})
             a == checkAdminMiddleware(t, {}) IN
         /\ ENABLE_WHITELIST =>
              IF x = NoString THEN w.mw = "401"
              ELSE /\ w.user.identifier = x
                   /\ w.mw = IF toLowerCase(x) \in user_whitelist
                             THEN "next" ELSE "403"
         /\ IF x = NoString THEN a.mw = "401"
            ELSE /\ a.user.identifier = x
                 /\ a.mw = IF toLowerCase(x) \in admin_whitelist
                           THEN "next" ELSE "403"
  /\ (res.op \in {"holdings", "whitelist_add"} /\ res.user.identifier # NoString)
       => \E t \in Tokens :
            Stored(t) # Null /\ IdentityOf(Stored(t)) = res.user.identifier

\* An IdentitySession with email "a" and account id "b" was issued while
\* only "b" is whitelisted; its request has just been refused with 403 for
\* "a"; a BrokerSession without user id is stored as well.
C32_Witness ==
  /\ ENABLE_WHITELIST
  /\ user_whitelist = {<<"b">>}
  /\ res.op = "holdings" /\ res.status = 403 /\ res.user.identifier = <<"a">>
  /\ \E t \in Tokens :
       /\ google_session[t] # Null
       /\ google_session[t].user_data = [user_id |-> <<"b">>, email |-> <<"a">>]
  /\ \E t \in Tokens :
       /\ session[t] # Null /\ session[t].user_id = NoString
       /\ checkWhitelistMiddleware(t, {}).mw = "401"

\* Token t resolves in neither policy, and a holdings request with it is
\* answered 401 whatever the brokerage would say.
Unauthenticated(t) ==
  /\ session[t] = Null /\ google_session[t] = Null
  /\ ResolvesNowhere(t)
  /\ checkAdminMiddleware(t, {}).mw = "401"
  /\ \A outcome \in HoldingsOutcomes :
       HoldingsResult(t, outcome, {}, {}).status = 401

\* A token that was handed out and has no record gets none again.
StaysOut(t) ==
  (t <= minted /\ session[t] = Null /\ google_session[t] = Null)
    => (session'[t] = Null /\ google_session'[t] = Null)

\* The statement as claimed: after any logout for a generated token t that
\* answers success with the store working, through either endpoint and with
\* either provider named, t is unauthenticated.
C33_Original ==
  [][res'.op \in {"google_logout", "logout"} =>
       \A t \in 1..minted :
         (\/ GoogleLogoutReq(t, FALSE, "ok", {})
          \/ \E broker \in {"zerodha", "google"} : LogoutReq(t, broker, {}))
           => Unauthenticated(t)']_vars

\* C33: after a logout for token t that names the namespace holding t's
\* record (the identity provider's logout or broker "google" for an
\* IdentitySession, another broker for a BrokerSession) and whose store call
\* works, t has no record, resolves in neither policy and is answered 401 by
\* the holdings endpoint, and no later step brings a record back.
C33_LogoutEndsSession ==
  [][/\ \A t \in Tokens : StaysOut(t)
     /\ res'.op \in {"google_logout", "logout"} =>
          \A t \in 1..minted :
            /\ (google_session[t] # Null /\ GoogleLogoutReq(t, FALSE, "ok", {}))
                 => Unauthenticated(t)'
            /\ \A broker \in {"zerodha", "google"} :
                 (Namespace(broker, t) # Null /\ LogoutReq(t, broker, {}))
                   => Unauthenticated(t)']_vars

\* Before any time has passed, a logout through the generic endpoint has
\* just deleted a record, and neither of the two tokens handed out resolves.
C33_Witness ==
  /\ now = 0 /\ minted = 2
  /\ res.op = "logout" /\ res.cleared /\ res.message = "Logout successful"
  /\ \A t \in Tokens : Unauthenticated(t)
  /\ ENABLE_WHITELIST

Creates(t, op) == t = minted + 1 /\ minted' = t /\ res'.op = op /\ res'.token = t

\* C35: in every step, the record stored under a token in either namespace
\* stays exactly as it is or disappears as a whole (logout, lazy expiry by
\* a middleware or by the validation endpoint, the store's TTL), and a
\* record appears only under the token that a token exchange hands out in
\* that step.
C35_RecordsNeverChange ==
  [][\A t \in Tokens :
       /\ session[t] # Null => session'[t] \in {session[t], Null}
       /\ google_session[t] # Null => google_session'[t] \in {google_session[t], Null}
       /\ (session[t] = Null /\ session'[t] # Null) => Creates(t, "zerodha_callback")
       /\ (google_session[t] = Null /\ google_session'[t] # Null)
            => Creates(t, "google_token")]_vars

\* The validation endpoint has just found a BrokerSession valid at a time
\* when an IdentitySession is past its expires_at: both records are as they
\* were written.
C35_Witness ==
  /\ res.op = "validate" /\ res.valid
  /\ now = 1800
  /\ \E t \in Tokens :
       session[t] # Null /\ session[t].user_id = res.user.identifier
         /\ session[t].ttl_at = ZERODHA_TTL
  /\ \E t \in Tokens :
       google_session[t] # Null /\ google_session[t].expires_at = 900
         /\ google_session[t].ttl_at = GOOGLE_TTL

\* Identifier id, if there is one, is in the whitelist set.
Listed(id) == id # NoString /\ toLowerCase(id) \in user_whitelist

\* C36: with the whitelist enabled and the store working, an identity
\* exchange whose profile has neither a whitelisted email nor a whitelisted
\* account id is answered 403 and creates no session, and any other
\* completed exchange hands out a token that the whitelist middleware
\* forwards in the state the exchange leaves.
C36_LoginGateIsRequestGate ==
  [][(ENABLE_WHITELIST /\ res'.op = "google_token") =>
       \A answer \in GoogleAnswers :
         GoogleTokenReq(TRUE, TRUE, "ok", "ok", answer, {}) =>
           IF ~Listed(answer.email) /\ ~Listed(answer.id)
           THEN res'.status = 403 /\ NoIdentitySession
           ELSE /\ res'.status = 200 /\ res'.token # NoToken
                /\ \A t \in Tokens :
                     t = res'.token => checkWhitelistMiddleware(t, {})'.mw = "next"]_vars

\* The statement as claimed: the admin set never loses a member, and once
\* it has one no bootstrap answer comes with a change of either set.
C37_Original ==
  [][/\ admin_whitelist \subseteq admin_whitelist'
     /\ (res'.op = "setup" /\ admin_whitelist # {}) => UNCHANGED registry]_vars

\* C37: no step of any endpoint takes an identifier out of the admin set,
\* so a non-empty admin set stays non-empty; a bootstrap request whose
\* count of the admins is taken when the set has a member is answered at
\* once, never 200, and writes nothing then or later.  (A request that
\* counted while the set was empty may still write after another has.)
C37_AdminSetNeverShrinks ==
  [][/\ admin_whitelist \subseteq admin_whitelist'
     /\ admin_whitelist # {} => admin_whitelist' # {}
     /\ admin_whitelist # {} =>
          \A k \in SetupKeys, id \in Identifiers, fail \in SUBSET {"sCard"} :
            SetupCheckReq(k, id, fail) =>
              /\ res'.op = "setup" /\ res'.status \in {400, 403, 409, 500}
              /\ UNCHANGED <<registry, inflight>>]_vars

\* The admin set has two members, no bootstrap is under way and one with
\* the right key has just been refused.
C37_Witness ==
  /\ ~SUPER_ADMIN_MODE
  /\ Cardinality(admin_whitelist) = 2
  /\ inflight = {}
  /\ res.op = "setup" /\ res.status = 409

\* The broker parameter of a validation request that names no provider: the
\* handler's default.
DefaultBroker == "zerodha"

\* The broker parameters covered for token t: none, or the provider that
\* created t's record (any, when there is no record to tell).
BrokersFor(t) ==
  IF Stored(t) = Null THEN {DefaultBroker, "zerodha", "google"}
  ELSE {DefaultBroker, Stored(t).kind}

\* C38: for every generated token and every such broker parameter, the
\* validation endpoint (store working) reports valid exactly when the
\* whitelist middleware's lookup resolves the token to a live session.
C38_ValidateAgreesWithMiddleware ==
  \A t \in 1..minted : \A broker \in BrokersFor(t) :
    ValidateResult(t, broker, {}).body.valid
      <=> (ResolveSession(t, {}).outcome = "found")

\* Token t names a live IdentitySession that the whitelist middleware
\* forwards.
PassesAsIdentity(t) ==
  /\ session[t] = Null /\ google_session[t] # Null
  /\ checkWhitelistMiddleware(t, {}).mw = "next"

\* C39: a request to either holdings endpoint reaches the brokerage only when
\* a BrokerSession record that has not expired is stored under the token it
\* presents, whatever store calls fail and whatever the brokerage answers; a
\* request whose token the whitelist middleware forwards as an
\* IdentitySession (whitelist on or off) makes no call to the brokerage and
\* is answered 401 by the holdings handler (the bulk analysis answers it 400,
\* the single-stock analysis 200).
C39_HoldingsNeedBrokerSession ==
  \A tok \in RequestTokens, outcome \in HoldingsOutcomes,
     mwFail \in SUBSET {"get", "sIsMember_user", "del"},
     hFail \in SUBSET {"get"} :
    LET r == HoldingsResult(tok, outcome, mwFail, hFail)
        viaIdentity == tok # NoToken /\ mwFail = {} /\ hFail = {}
                       /\ PassesAsIdentity(tok)
    IN
      /\ r.upstream \in {<< >>, <<"kite_holdings">>}
      /\ r.upstream # << >> =>
           /\ tok # NoToken /\ session[tok] # Null
           /\ now < session[tok].ttl_at
      /\ viaIdentity => r.status = 401 /\ r.upstream = << >>
      /\ \A single \in BOOLEAN :
           LET a == HoldingsAiResult(tok, single, outcome, mwFail, hFail) IN
             /\ a.upstream \in {<< >>, <<"kite_holdings">>}
             /\ a.upstream # << >> =>
                  /\ tok # NoToken /\ session[tok] # Null
                  /\ now < session[tok].ttl_at
             /\ viaIdentity =>
                  /\ a.upstream = << >>
                  /\ a.status = IF single THEN 200 ELSE 400

\* With the whitelist enabled, the middleware has forwarded a request as an
\* IdentitySession of a whitelisted user and the handler has answered 401
\* without calling the brokerage.
C39_Witness ==
  /\ ENABLE_WHITELIST
  /\ res.op = "holdings" /\ res.status = 401
  /\ res.user.session_type = "google"
  /\ res.upstream = << >>
  /\ \E t \in Tokens : PassesAsIdentity(t)

====
